---- MODULE Spec2Model ----
(***************************************************************************)
(* Peg-out transaction graph of the BitVM bridge                           *)
(* (bridge/src/graphs/peg_out.rs): the MuSig2 pre-signing rounds over the  *)
(* copies of one graph held by the operator and the verifiers, the merge   *)
(* of copies, and the role-scoped status projections.                      *)
(***************************************************************************)
EXTENDS Integers, FiniteSets, Sequences, TLC

VARIABLES graphs, signers, pushes, secret_nonces, signed, merged,
          tx_status, blockchain_height, verifier_result, chain_txs, broadcasts,
          operator_result, withdrawer_result, action_report,
          all_events, event_result, chain_event, stored_graph, validate_result,
          chunker

presign_vars == <<graphs, signers, pushes, secret_nonces, signed, merged>>
chain_vars == <<tx_status, blockchain_height, chain_txs, broadcasts>>
vars == <<graphs, signers, pushes, secret_nonces, signed, merged,
          tx_status, blockchain_height, verifier_result, chain_txs, broadcasts,
          operator_result, withdrawer_result, action_report,
          all_events, event_result, chain_event, stored_graph, validate_result,
          chunker>>
\* What the calls other than the projections left behind: the report of a
\* failed action, the caller's event list, the result of the event match and
\* the event held in the graph's peg_out_chain_event; the transaction bodies
\* of the graph and the result of validate; the chunker's elements.
event_vars == <<all_events, event_result, chain_event>>
validate_vars == <<stored_graph, validate_result>>
call_vars == <<action_report, event_vars, validate_vars, chunker>>
status_vars == <<verifier_result, operator_result, withdrawer_result,
                 call_vars>>

(***************************************************************************)
(* Events of the destination chain and match_and_set_peg_out_event        *)
(* (lines 1944-1970).                                                       *)
(***************************************************************************)
MaxEvents == 3

peg_in_confirm_txid == "peg_in_confirm_txid"
operator_public_key == "operator_public_key"

\* PegOutEvent: the fields the match reads and the hash that tells two events
\* apart.
Events ==
    [txid : {peg_in_confirm_txid, "other_txid"},
     operator_public_key : {operator_public_key, "other_public_key"},
     tx_hash : {"hash_1", "hash_2"}]

NoEvent == [txid |-> "none", operator_public_key |-> "none", tx_hash |-> "none"]

NoResult == [kind |-> "none", event |-> NoEvent]

\* A match on the peg-in confirm txid alone.
event_matches_txid_only(event) == peg_in_confirm_txid = event.txid

\* lines 1951-1952: the event belongs to this graph.
event_matches(event) ==
    /\ peg_in_confirm_txid = event.txid
    /\ operator_public_key = event.operator_public_key

\* lines 1950-1957: the positions of the matching events, in ascending order
\* (position 1 is index 0 of the vector).
RECURSIVE matching_ids(_, _)
matching_ids(events, i) ==
    IF i > Len(events) THEN << >>
    ELSE IF event_matches(events[i])
         THEN <<i>> \o matching_ids(events, i + 1)
         ELSE matching_ids(events, i + 1)

RECURSIVE matching_events(_, _)
matching_events(events, i) ==
    IF i > Len(events) THEN << >>
    ELSE IF event_matches(events[i])
         THEN <<events[i]>> \o matching_events(events, i + 1)
         ELSE matching_events(events, i + 1)

\* Vec::swap_remove: the last element takes the place of the removed one; an
\* index past the end panics.
swap_remove(v, x) ==
    IF x > Len(v) THEN [panic |-> TRUE, list |-> v]
    ELSE [panic |-> FALSE,
          list |-> SubSeq([v EXCEPT ![x] = v[Len(v)]], 1, Len(v) - 1)]

\* lines 1958-1960: swap_remove at every recorded position, in the order the
\* positions were recorded.
RECURSIVE remove_ids(_, _)
remove_ids(v, ids) ==
    IF ids = << >> THEN [panic |-> FALSE, list |-> v]
    ELSE LET r == swap_remove(v, Head(ids))
         IN IF r.panic THEN r ELSE remove_ids(r.list, Tail(ids))

\* match_and_set_peg_out_event: the result, the event stored in the graph
\* afterwards and the caller's list afterwards.
match_and_set_peg_out_event(stored, events) ==
    LET found == matching_events(events, 1)
        removed == remove_ids(events, matching_ids(events, 1))
    IN IF removed.panic
       THEN [result |-> [kind |-> "panic", event |-> NoEvent],
             stored |-> stored, list |-> removed.list]
       ELSE IF Len(found) = 0
       THEN [result |-> [kind |-> "Ok(None)", event |-> NoEvent],
             stored |-> stored, list |-> removed.list]
       ELSE IF Len(found) = 1
       THEN [result |-> [kind |-> "Ok(Some)", event |-> found[1]],
             stored |-> found[1], list |-> removed.list]
       ELSE [result |-> [kind |-> "Err(Event from L2 chain is not unique)",
                         event |-> NoEvent],
             stored |-> stored, list |-> removed.list]

(***************************************************************************)
(* Bounds of the model.                                                    *)
(***************************************************************************)
\* total number of push_verifier_nonces calls (each samples fresh nonces)
MaxPushes == 2
\* largest block height a confirmed transaction of a status snapshot reports
MaxHeight == 1
\* largest chain height of a status snapshot
MaxNow == 2
\* largest number of failed status queries in a status snapshot
MaxErrors == 1
\* largest number of outputs the actions add to one transaction of a copy
MaxAddedOutputs == 1
\* largest number of broadcasts of one behaviour of the actions
MaxBroadcasts == 1

(***************************************************************************)
(* The transactions of a PegOutGraph (struct fields, lines 331-343).       *)
(***************************************************************************)
GraphTxs ==
    {"peg_out_confirm", "assert_initial", "assert_final", "challenge",
     "disprove_chain", "disprove", "kick_off_1", "kick_off_2",
     "kick_off_timeout", "start_time", "start_time_timeout", "take_1", "take_2"}

\* A list that also holds start_time, as the nonce checks of validate do.
all_presigned_txs_with_start_time ==
    <<"assert_initial", "assert_final", "disprove_chain", "disprove",
      "kick_off_timeout", "start_time", "start_time_timeout", "take_1", "take_2">>

\* all_presigned_txs / all_presigned_txs_mut: the transactions the nonce and
\* signature rounds iterate over, in the order of the vec! literal.
all_presigned_txs ==
    <<"assert_initial", "assert_final", "disprove_chain", "disprove",
      "kick_off_timeout", "start_time_timeout", "take_1", "take_2">>

\* A verifier_sign that forgets the last pre_sign call.
verifier_sign_txs_without_take_2 ==
    <<"assert_initial", "assert_final", "disprove_chain", "disprove",
      "kick_off_timeout", "start_time_timeout", "take_1">>

\* The pre_sign calls of verifier_sign, in source order.
verifier_sign_txs ==
    <<"assert_initial", "assert_final", "disprove_chain", "disprove",
      "kick_off_timeout", "start_time_timeout", "take_1", "take_2">>

\* The per-transaction merge calls of PegOutGraph::merge, in source order.
merge_txs ==
    <<"assert_initial", "assert_final", "challenge", "disprove_chain", "disprove",
      "kick_off_timeout", "start_time", "start_time_timeout", "take_1", "take_2">>

Range(seq) == {seq[i] : i \in 1..Len(seq)}

PreSignedTxSet == Range(all_presigned_txs)
MergeTxSet == Range(merge_txs)

(***************************************************************************)
(* Per-transaction MuSig2 state.  A transaction holds two maps keyed by    *)
(* signer public key: the public nonces and the partial signatures (one    *)
(* entry stands for the entries of all n-of-n inputs of the transaction,   *)
(* which every operation reads and writes together).  A map is a function  *)
(* whose domain is the set of keys present.                                *)
(*   nonce: the number of the push_verifier_nonces call that sampled it.   *)
(*   partial signature: the secret nonce used and the public nonces that   *)
(*   were aggregated when it was produced.                                 *)
(***************************************************************************)
EmptyMap == [k \in {} |-> 0]

\* added_outputs: the script pubkeys of the outputs added after construction.
EmptyTx ==
    [musig2_nonces |-> EmptyMap, musig2_signatures |-> EmptyMap,
     added_outputs |-> << >>]

\* HashMap::insert
Insert(map, k, val) ==
    [x \in DOMAIN map \cup {k} |-> IF x = k THEN val ELSE map[x]]

\* push_nonces: sample a nonce, publish the public nonce under the signer's key.
push_nonces(tx, key, nonce) ==
    [tx EXCEPT !.musig2_nonces = Insert(tx.musig2_nonces, key, nonce)]

\* pre_sign: partial signature from the held public nonces and the secret nonce.
pre_sign(tx, key, secret_nonce) ==
    [tx EXCEPT !.musig2_signatures =
        Insert(tx.musig2_signatures, key,
               [sn |-> secret_nonce, agg |-> tx.musig2_nonces])]

has_nonces_for(tx, key) == key \in DOMAIN tx.musig2_nonces
has_signatures_for(tx, key) == key \in DOMAIN tx.musig2_signatures
tx_has_all_nonces(tx, keys) == \A k \in keys : has_nonces_for(tx, k)
tx_has_all_signatures(tx, keys) == \A k \in keys : has_signatures_for(tx, k)

\* Two maps disagree on a key both hold.
MapConflict(a, b) == \E k \in DOMAIN a \cap DOMAIN b : a[k] # b[k]

MapUnion(a, b) ==
    [k \in DOMAIN a \cup DOMAIN b |-> IF k \in DOMAIN a THEN a[k] ELSE b[k]]

TxConflict(dst, src) ==
    \/ MapConflict(dst.musig2_nonces, src.musig2_nonces)
    \/ MapConflict(dst.musig2_signatures, src.musig2_signatures)

\* Transaction-level merge: union of the per-signer maps; refused, leaving the
\* destination as it was, when an entry both hold differs.
tx_merge(dst, src) ==
    IF TxConflict(dst, src) THEN dst
    ELSE [dst EXCEPT
             !.musig2_nonces = MapUnion(dst.musig2_nonces, src.musig2_nonces),
             !.musig2_signatures =
                 MapUnion(dst.musig2_signatures, src.musig2_signatures)]

\* add_output: push an output paying the script.
add_output(tx, script) ==
    [tx EXCEPT !.added_outputs = Append(tx.added_outputs, script)]

\* The aggregated MuSig2 signature of a transaction verifies when every
\* signer's partial signature is there and was made with the secret nonce of
\* the public nonce the transaction holds for that signer, over the
\* aggregate of exactly the public nonces the transaction holds.
aggregated_signature_valid(tx, keys) ==
    /\ DOMAIN tx.musig2_nonces = keys
    /\ \A k \in keys :
          /\ k \in DOMAIN tx.musig2_signatures
          /\ tx.musig2_signatures[k].agg = tx.musig2_nonces
          /\ tx.musig2_signatures[k].sn = tx.musig2_nonces[k]

\* finalize: the transaction body with its witness; the pre-signatures do not
\* commit to the outputs added later.
finalize(name, tx, keys) ==
    [tx |-> name, added_outputs |-> tx.added_outputs,
     witness_valid |-> aggregated_signature_valid(tx, keys)]

\* The number of outputs DisproveChainTransaction::new builds: the reward
\* output added by add_output is output[1].
disprove_chain_base_outputs == 1

(***************************************************************************)
(* Transaction bodies.  A transaction is its list of spent outpoints and   *)
(* its list of output amounts (tx) together with the amounts of the spent  *)
(* outputs (prev_outs).  The constructors of the transactions build the    *)
(* same body from the same Input values; an output amount is kept as the   *)
(* term (transaction, vout, amounts of the inputs) it is computed from,    *)
(* and a txid as the body it is the hash of.                               *)
(***************************************************************************)
MaxAmount == 2
connector_e_1_num == 1
connector_e_2_num == 1

AllTxs == GraphTxs \cup {"assert_commit_1", "assert_commit_2"}

Amount(of, vout, funded) == [of |-> of, vout |-> vout, funded |-> funded]

\* The amounts of the outputs created outside the graph.
ExternalAmounts == {Amount("external", k, << >>) : k \in 1..MaxAmount}

\* The number of outputs of each transaction.
OutputCount(t) ==
    CASE t = "kick_off_1" -> 3
      [] t = "kick_off_2" -> 2
      [] t = "assert_initial" -> 1 + connector_e_1_num + connector_e_2_num
      [] t = "assert_final" -> 3
      [] OTHER -> 1

\* X::new / X::new_for_validation on the Input values ins.
build(t, ins) ==
    LET prev_outs == [i \in DOMAIN ins |-> ins[i].amount]
    IN [tx |-> [name |-> t,
                input |-> [i \in DOMAIN ins |-> ins[i].outpoint],
                output |-> [j \in 1..OutputCount(t) |->
                               Amount(t, j - 1, prev_outs)]],
        prev_outs |-> prev_outs]

compute_txid(tx) == tx

\* Input { outpoint: OutPoint { txid: producer txid, vout }, amount:
\* producer.tx().output[vout].value }
InputOf(producer, vout) ==
    [outpoint |-> [txid |-> compute_txid(producer.tx), vout |-> vout],
     amount |-> producer.tx.output[vout + 1]]

\* The peg-in confirm transaction of the peg-in graph.
PegInConfirmTransactions ==
    {[tx |-> [name |-> "peg_in_confirm", input |-> << >>, output |-> <<a>>],
      prev_outs |-> << >>] : a \in ExternalAmounts}

\* The funding inputs of peg_out_confirm.
FundingInputs ==
    {[outpoint |-> [txid |-> f, vout |-> 0], amount |-> a] :
        f \in {"funding_txid"}, a \in ExternalAmounts}

\* PegOutGraph::new (lines 480-776): the transactions built, the two assert
\* commit transactions with them; take_1_vout_3 is 1 (line 575).
new_with(peg_in_confirm_transaction, peg_out_confirm_input, take_1_vout_3) ==
    LET peg_out_confirm == build("peg_out_confirm", <<peg_out_confirm_input>>)
        kick_off_1 == build("kick_off_1", <<InputOf(peg_out_confirm, 0)>>)
        start_time == build("start_time", <<InputOf(kick_off_1, 2)>>)
        start_time_timeout ==
            build("start_time_timeout",
                  <<InputOf(kick_off_1, 2), InputOf(kick_off_1, 1)>>)
        kick_off_2 == build("kick_off_2", <<InputOf(kick_off_1, 1)>>)
        kick_off_timeout == build("kick_off_timeout", <<InputOf(kick_off_1, 1)>>)
        challenge == build("challenge", <<InputOf(kick_off_1, 0)>>)
        take_1 ==
            build("take_1",
                  <<InputOf(peg_in_confirm_transaction, 0), InputOf(kick_off_1, 0),
                    InputOf(kick_off_2, 0), InputOf(kick_off_2, take_1_vout_3)>>)
        assert_initial == build("assert_initial", <<InputOf(kick_off_2, 1)>>)
        assert_commit_1 ==
            build("assert_commit_1",
                  [idx \in 1..connector_e_1_num |->
                      InputOf(assert_initial, (idx - 1) + 1)])
        assert_commit_2 ==
            build("assert_commit_2",
                  [idx \in 1..connector_e_2_num |->
                      InputOf(assert_initial,
                              (idx - 1) + 1 + connector_e_1_num)])
        assert_final ==
            build("assert_final",
                  <<InputOf(assert_initial, 0), InputOf(assert_commit_1, 0),
                    InputOf(assert_commit_2, 0)>>)
        take_2 ==
            build("take_2",
                  <<InputOf(peg_in_confirm_transaction, 0),
                    InputOf(assert_final, 0), InputOf(assert_final, 1),
                    InputOf(assert_final, 2)>>)
        disprove ==
            build("disprove", <<InputOf(assert_final, 1), InputOf(assert_final, 2)>>)
        disprove_chain == build("disprove_chain", <<InputOf(kick_off_2, 1)>>)
    IN [t \in AllTxs |->
           CASE t = "peg_out_confirm" -> peg_out_confirm
             [] t = "kick_off_1" -> kick_off_1
             [] t = "start_time" -> start_time
             [] t = "start_time_timeout" -> start_time_timeout
             [] t = "kick_off_2" -> kick_off_2
             [] t = "kick_off_timeout" -> kick_off_timeout
             [] t = "challenge" -> challenge
             [] t = "take_1" -> take_1
             [] t = "assert_initial" -> assert_initial
             [] t = "assert_commit_1" -> assert_commit_1
             [] t = "assert_commit_2" -> assert_commit_2
             [] t = "assert_final" -> assert_final
             [] t = "take_2" -> take_2
             [] t = "disprove" -> disprove
             [] t = "disprove_chain" -> disprove_chain]

\* A new whose take_1 spends kick_off_2[0] twice.
new_take_1_without_connector_b(peg_in_confirm_transaction, peg_out_confirm_input) ==
    new_with(peg_in_confirm_transaction, peg_out_confirm_input, 0)

new_all(peg_in_confirm_transaction, peg_out_confirm_input) ==
    new_with(peg_in_confirm_transaction, peg_out_confirm_input, 1)

\* The 13 transactions the graph stores (lines 797-809).
new(peg_in_confirm_transaction, peg_out_confirm_input) ==
    [t \in GraphTxs |->
        new_all(peg_in_confirm_transaction, peg_out_confirm_input)[t]]

\* Input taken from the stored transaction ("Self-referencing").
InputOfSelf(self, t, i) ==
    [outpoint |-> self[t].tx.input[i + 1], amount |-> self[t].prev_outs[i + 1]]

\* PegOutGraph::new_for_validation (lines 825-1195); start_time_vout_0 is 2
\* (line 867).
new_for_validation_with(self, start_time_vout_0) ==
    LET peg_in_confirm_txid_of_self == self["take_1"].tx.input[1].txid
        peg_out_confirm ==
            build("peg_out_confirm", <<InputOfSelf(self, "peg_out_confirm", 0)>>)
        kick_off_1 == build("kick_off_1", <<InputOfSelf(self, "kick_off_1", 0)>>)
        start_time ==
            build("start_time", <<InputOf(kick_off_1, start_time_vout_0)>>)
        start_time_timeout ==
            build("start_time_timeout",
                  <<InputOf(kick_off_1, 2), InputOf(kick_off_1, 1)>>)
        kick_off_2 == build("kick_off_2", <<InputOf(kick_off_1, 1)>>)
        kick_off_timeout == build("kick_off_timeout", <<InputOf(kick_off_1, 1)>>)
        challenge == build("challenge", <<InputOf(kick_off_1, 0)>>)
        take_1 ==
            build("take_1",
                  <<[outpoint |-> [txid |-> peg_in_confirm_txid_of_self, vout |-> 0],
                     amount |-> self["take_1"].prev_outs[1]],
                    InputOf(kick_off_1, 0), InputOf(kick_off_2, 0),
                    InputOf(kick_off_2, 1)>>)
        assert_initial == build("assert_initial", <<InputOf(kick_off_2, 1)>>)
        assert_commit_1 ==
            build("assert_commit_1",
                  [idx \in 1..connector_e_1_num |->
                      InputOf(assert_initial, (idx - 1) + 1)])
        assert_commit_2 ==
            build("assert_commit_2",
                  [idx \in 1..connector_e_2_num |->
                      InputOf(assert_initial,
                              (idx - 1) + 1 + connector_e_1_num)])
        assert_final ==
            build("assert_final",
                  <<InputOf(assert_initial, 0), InputOf(assert_commit_1, 0),
                    InputOf(assert_commit_2, 0)>>)
        take_2 ==
            build("take_2",
                  <<[outpoint |-> [txid |-> peg_in_confirm_txid_of_self, vout |-> 0],
                     amount |-> self["take_2"].prev_outs[1]],
                    InputOf(assert_final, 0), InputOf(assert_final, 1),
                    InputOf(assert_final, 2)>>)
        disprove ==
            build("disprove", <<InputOf(assert_final, 1), InputOf(assert_final, 2)>>)
        disprove_chain == build("disprove_chain", <<InputOf(kick_off_2, 1)>>)
    IN [t \in GraphTxs |->
           CASE t = "peg_out_confirm" -> peg_out_confirm
             [] t = "kick_off_1" -> kick_off_1
             [] t = "start_time" -> start_time
             [] t = "start_time_timeout" -> start_time_timeout
             [] t = "kick_off_2" -> kick_off_2
             [] t = "kick_off_timeout" -> kick_off_timeout
             [] t = "challenge" -> challenge
             [] t = "take_1" -> take_1
             [] t = "assert_initial" -> assert_initial
             [] t = "assert_final" -> assert_final
             [] t = "take_2" -> take_2
             [] t = "disprove" -> disprove
             [] t = "disprove_chain" -> disprove_chain]

\* A new_for_validation whose start_time spends kick_off_1[1].
new_for_validation_start_time_vout_1(self) == new_for_validation_with(self, 1)

new_for_validation(self) == new_for_validation_with(self, 2)

\* A comparison of the spent outpoints alone.
validate_transaction_inputs_only(tx, tx_ref) == tx.input = tx_ref.input

\* validate_transaction: the two bodies are the same bytes.
validate_transaction(tx, tx_ref) == tx = tx_ref

\* verify_public_nonces_for_tx: every public nonce the transaction holds is
\* one a push_nonces call published.
verify_public_nonces_for_tx(tx) ==
    \A k \in DOMAIN tx.musig2_nonces : tx.musig2_nonces[k] >= 1

\* The transactions whose public nonces validate verifies (lines 2159-2185).
validate_nonce_txs ==
    <<"assert_initial", "assert_final", "disprove_chain", "disprove",
      "kick_off_timeout", "start_time", "start_time_timeout", "take_1", "take_2">>

\* validate (lines 2077-2188) on the stored bodies self and the MuSig2 state
\* txs of the same graph.
validate(self, txs) ==
    LET peg_out_graph == new_for_validation(self)
    IN /\ \A t \in GraphTxs :
             validate_transaction(self[t].tx, peg_out_graph[t].tx)
       /\ \A i \in DOMAIN validate_nonce_txs :
             verify_public_nonces_for_tx(txs[validate_nonce_txs[i]])

\* No element has been created.
NoChunker == [elements |-> << >>, last |-> [op |-> "none"]]

\* No graph has been built.
NoStored == [txs |-> << >>, changed |-> FALSE]

(***************************************************************************)
(* PegOutGraph                                                             *)
(***************************************************************************)
\* PegOutGraph::new: no nonces, no signatures, n_of_n_presigned false.
\* peg_out_chain_event and peg_out_transaction are None (FALSE) or Some (TRUE).
NewGraph ==
    [n_of_n_presigned |-> FALSE, txs |-> [t \in GraphTxs |-> EmptyTx],
     peg_out_chain_event |-> FALSE, peg_out_transaction |-> FALSE]

\* push_verifier_nonces (lines 409-421): push on every pre-signed transaction;
\* the returned map holds the secret nonces by txid.
push_verifier_nonces(g, key, nonce) ==
    [g EXCEPT !.txs =
        [t \in GraphTxs |->
            IF t \in PreSignedTxSet
            THEN push_nonces(g.txs[t], key, nonce) ELSE g.txs[t]]]

returned_secret_nonces(nonce) == [t \in PreSignedTxSet |-> nonce]

\* The pre_sign calls of verifier_sign up to position n.  Indexing the secret
\* nonces by a txid they do not hold panics: nothing after it runs.
RECURSIVE pre_sign_upto(_, _, _, _)
pre_sign_upto(g, key, secret, n) ==
    IF n = 0 THEN [g |-> g, panicked |-> FALSE]
    ELSE LET before == pre_sign_upto(g, key, secret, n - 1)
             t == verifier_sign_txs[n]
         IN IF before.panicked \/ t \notin DOMAIN secret
            THEN [g |-> before.g, panicked |-> TRUE]
            ELSE [g |-> [before.g EXCEPT !.txs[t] =
                            pre_sign(before.g.txs[t], key, secret[t])],
                  panicked |-> FALSE]

\* verifier_sign (lines 357-407): pre-sign the eight transactions, then set
\* n_of_n_presigned unconditionally (line 406).
verifier_sign(g, key, secret) ==
    LET r == pre_sign_upto(g, key, secret, Len(verifier_sign_txs))
    IN IF r.panicked THEN r.g
       ELSE [r.g EXCEPT !.n_of_n_presigned = TRUE]

verifier_sign_panics(g, key, secret) ==
    pre_sign_upto(g, key, secret, Len(verifier_sign_txs)).panicked

\* A merge that leaves out the last transaction of the list.
merge_skipping_take_2(dst, src) ==
    [dst EXCEPT !.txs =
        [t \in GraphTxs |->
            IF t \in MergeTxSet \ {"take_2"}
            THEN tx_merge(dst.txs[t], src.txs[t]) ELSE dst.txs[t]]]

\* PegOutGraph::merge (lines 2190-2220): merge transaction by transaction; the
\* method returns nothing and leaves n_of_n_presigned as it is.
merge(dst, src) ==
    [dst EXCEPT !.txs =
        [t \in GraphTxs |->
            IF t \in MergeTxSet
            THEN tx_merge(dst.txs[t], src.txs[t]) ELSE dst.txs[t]]]

\* What merge reports to its caller: the method has no return value and no
\* error path, whatever the per-transaction merges met.
merge_result(dst, src) == "ok"

has_all_nonces_of(g, key) ==
    \A t \in PreSignedTxSet : has_nonces_for(g.txs[t], key)
has_all_nonces(g, keys) ==
    \A t \in PreSignedTxSet : tx_has_all_nonces(g.txs[t], keys)
has_all_signatures_of(g, key) ==
    \A t \in PreSignedTxSet : has_signatures_for(g.txs[t], key)
has_all_signatures(g, keys) ==
    \A t \in PreSignedTxSet : tx_has_all_signatures(g.txs[t], keys)

(***************************************************************************)
(* Chain client: get_tx_status returns Result<TxStatus, Error>, with       *)
(* TxStatus {confirmed, block_height: Option<u32>}.  block_height -1 is    *)
(* None.                                                                   *)
(***************************************************************************)
StatusTxs == GraphTxs \cup {"peg_out"}

QueryError == [ok |-> FALSE, confirmed |-> FALSE, block_height |-> -1]
Unconfirmed == [ok |-> TRUE, confirmed |-> FALSE, block_height |-> -1]
Confirmed(h) == [ok |-> TRUE, confirmed |-> TRUE, block_height |-> h]

\* status.as_ref().is_ok_and(|status| status.confirmed)
is_confirmed(status) == status.ok /\ status.confirmed
\* status.as_ref().is_ok_and(|status| !status.confirmed)
is_unconfirmed(status) == status.ok /\ ~status.confirmed

\* Timelocks of the connectors, in blocks (scaled down).
connector_1_num_blocks_timelock_leaf_1 == 2
connector_1_num_blocks_timelock_leaf_2 == 1

\* A verifier_status that answers PegOutPresign where nothing is to be done.
verifier_status_presign_when_idle(g, st, height) ==
    IF g.n_of_n_presigned /\ is_confirmed(st["kick_off_2"])
    THEN "PegOutDisproveChainAvailable"
    ELSE "PegOutPresign"

\* A kick-off-2 branch that tests the disproves before the takes.
verifier_status_kick_off_2_failed_first(st) ==
    IF is_confirmed(st["disprove"]) \/ is_confirmed(st["disprove_chain"])
    THEN "PegOutFailed"
    ELSE IF is_confirmed(st["take_1"]) \/ is_confirmed(st["take_2"])
    THEN "PegOutComplete"
    ELSE IF is_confirmed(st["assert_final"])
    THEN "PegOutDisproveAvailable"
    ELSE "PegOutDisproveChainAvailable"

\* verifier_status, kick_off_2 confirmed (lines 1221-1240).
verifier_status_kick_off_2(st) ==
    IF is_confirmed(st["take_1"]) \/ is_confirmed(st["take_2"])
    THEN "PegOutComplete"
    ELSE IF is_confirmed(st["disprove"]) \/ is_confirmed(st["disprove_chain"])
    THEN "PegOutFailed"
    ELSE IF is_confirmed(st["assert_final"])
    THEN "PegOutDisproveAvailable"
    ELSE "PegOutDisproveChainAvailable"

\* verifier_status, kick_off_2 not confirmed, kick_off_1 confirmed
\* (lines 1245-1287).
verifier_status_kick_off_1(st, height) ==
    IF is_confirmed(st["start_time_timeout"]) \/ is_confirmed(st["kick_off_timeout"])
    THEN "PegOutFailed"
    ELSE IF is_unconfirmed(st["start_time"])
    THEN IF /\ st["kick_off_1"].block_height >= 0
            /\ st["kick_off_1"].block_height
                   + connector_1_num_blocks_timelock_leaf_2 > height
         THEN "PegOutStartTimeTimeoutAvailable"
         ELSE "PegOutWait"
    ELSE IF /\ st["kick_off_1"].block_height >= 0
            /\ st["kick_off_1"].block_height
                   + connector_1_num_blocks_timelock_leaf_1 > height
    THEN "PegOutKickOffTimeoutAvailable"
    ELSE IF is_unconfirmed(st["challenge"])
    THEN "PegOutChallengeAvailable"
    ELSE "PegOutWait"

\* verifier_status (lines 1197-1294) over the statuses get_peg_out_statuses
\* fetched and the chain height get_block_height returned.
verifier_status(g, st, height) ==
    IF g.n_of_n_presigned
    THEN IF is_confirmed(st["kick_off_2"])
         THEN verifier_status_kick_off_2(st)
         ELSE IF is_confirmed(st["kick_off_1"])
         THEN verifier_status_kick_off_1(st, height)
         ELSE "PegOutWait"
    ELSE "PegOutPresign"

\* The statuses verifier_status reads, and the one whose block height it reads.
VerifierReadTxs ==
    {"assert_final", "challenge", "disprove_chain", "disprove", "kick_off_1",
     "kick_off_2", "kick_off_timeout", "start_time_timeout", "start_time",
     "take_1", "take_2"}
VerifierHeightTxs == {"kick_off_1"}

NoStatus == [t \in StatusTxs |-> Unconfirmed]

\* A snapshot of the statuses: the transactions of confirmed are confirmed
\* (at the heights given for those whose height is read), those of failed
\* could not be queried, the others are unconfirmed.
Snapshot(confirmed, failed, heights) ==
    [t \in StatusTxs |->
        IF t \in failed THEN QueryError
        ELSE IF t \in confirmed
        THEN Confirmed(IF t \in DOMAIN heights THEN heights[t] ELSE -1)
        ELSE Unconfirmed]

(***************************************************************************)
(* operator_status and withdrawer_status.                                  *)
(***************************************************************************)
connector_1_num_blocks_timelock_leaf_0 == 1
connector_3_num_blocks_timelock == 1
connector_b_num_blocks_timelock_1 == 1
connector_4_num_blocks_timelock == 1

\* status.block_height.is_some_and(|block_height| block_height + lock <= now)
timelock_elapsed(status, lock, height) ==
    status.block_height >= 0 /\ status.block_height + lock <= height

\* A kick-off-1 branch that takes the boundary height as not elapsed.
operator_status_kick_off_1_strict(st, height) ==
    IF is_confirmed(st["start_time_timeout"]) \/ is_confirmed(st["kick_off_timeout"])
    THEN "PegOutFailed"
    ELSE IF is_confirmed(st["start_time"])
    THEN IF /\ st["kick_off_1"].block_height >= 0
            /\ st["kick_off_1"].block_height
                   + connector_1_num_blocks_timelock_leaf_0 < height
         THEN "PegOutKickOff2Available"
         ELSE "PegOutWait"
    ELSE "PegOutStartTimeAvailable"

\* A kick-off-2 branch that offers take 1 without looking at the timelock.
operator_status_kick_off_2_take_1_early(st, height) ==
    IF is_confirmed(st["take_1"]) \/ is_confirmed(st["take_2"])
    THEN "PegOutComplete"
    ELSE IF is_confirmed(st["disprove_chain"]) \/ is_confirmed(st["disprove"])
    THEN "PegOutFailed"
    ELSE IF is_confirmed(st["challenge"])
    THEN IF is_confirmed(st["assert_final"])
         THEN IF timelock_elapsed(st["assert_final"],
                                  connector_4_num_blocks_timelock, height)
              THEN "PegOutTake2Available"
              ELSE "PegOutWait"
         ELSE IF timelock_elapsed(st["kick_off_2"],
                                  connector_b_num_blocks_timelock_1, height)
         THEN "PegOutAssertAvailable"
         ELSE "PegOutWait"
    ELSE "PegOutTake1Available"

\* A kick-off-2 branch that offers the assert although assert_final is mined.
operator_status_kick_off_2_assert_again(st, height) ==
    IF is_confirmed(st["take_1"]) \/ is_confirmed(st["take_2"])
    THEN "PegOutComplete"
    ELSE IF is_confirmed(st["disprove_chain"]) \/ is_confirmed(st["disprove"])
    THEN "PegOutFailed"
    ELSE IF is_confirmed(st["challenge"])
    THEN IF timelock_elapsed(st["kick_off_2"],
                             connector_b_num_blocks_timelock_1, height)
         THEN "PegOutAssertAvailable"
         ELSE "PegOutWait"
    ELSE IF timelock_elapsed(st["kick_off_2"],
                             connector_3_num_blocks_timelock, height)
    THEN "PegOutTake1Available"
    ELSE "PegOutWait"

\* operator_status, kick_off_2 confirmed (lines 1321-1375).
operator_status_kick_off_2(st, height) ==
    IF is_confirmed(st["take_1"]) \/ is_confirmed(st["take_2"])
    THEN "PegOutComplete"
    ELSE IF is_confirmed(st["disprove_chain"]) \/ is_confirmed(st["disprove"])
    THEN "PegOutFailed"
    ELSE IF is_confirmed(st["challenge"])
    THEN IF is_confirmed(st["assert_final"])
         THEN IF timelock_elapsed(st["assert_final"],
                                  connector_4_num_blocks_timelock, height)
              THEN "PegOutTake2Available"
              ELSE "PegOutWait"
         ELSE IF timelock_elapsed(st["kick_off_2"],
                                  connector_b_num_blocks_timelock_1, height)
         THEN "PegOutAssertAvailable"
         ELSE "PegOutWait"
    ELSE IF timelock_elapsed(st["kick_off_2"],
                             connector_3_num_blocks_timelock, height)
    THEN "PegOutTake1Available"
    ELSE "PegOutWait"

\* operator_status, kick_off_2 not confirmed, kick_off_1 confirmed
\* (lines 1376-1407).
operator_status_kick_off_1(st, height) ==
    IF is_confirmed(st["start_time_timeout"]) \/ is_confirmed(st["kick_off_timeout"])
    THEN "PegOutFailed"
    ELSE IF is_confirmed(st["start_time"])
    THEN IF timelock_elapsed(st["kick_off_1"],
                             connector_1_num_blocks_timelock_leaf_0, height)
         THEN "PegOutKickOff2Available"
         ELSE "PegOutWait"
    ELSE "PegOutStartTimeAvailable"

\* An operator_status that does not wait for the peg-out event.
operator_status_without_event(g, st, height) ==
    IF g.n_of_n_presigned
    THEN IF g.peg_out_transaction /\ is_confirmed(st["peg_out"])
         THEN "PegOutPegOutConfirmAvailable"
         ELSE "PegOutStartPegOut"
    ELSE "PegOutWait"

\* operator_status (lines 1296-1422).  peg_out_status is Some exactly when
\* the graph has a peg_out_transaction; status.unwrap() panics on Some(Err).
operator_status(g, st, height) ==
    IF g.n_of_n_presigned /\ g.peg_out_chain_event
    THEN IF g.peg_out_transaction /\ ~st["peg_out"].ok
         THEN "panic"
         ELSE IF g.peg_out_transaction /\ st["peg_out"].confirmed
         THEN IF is_confirmed(st["kick_off_2"])
              THEN operator_status_kick_off_2(st, height)
              ELSE IF is_confirmed(st["kick_off_1"])
              THEN operator_status_kick_off_1(st, height)
              ELSE IF is_confirmed(st["peg_out_confirm"])
              THEN "PegOutKickOff1Available"
              ELSE "PegOutPegOutConfirmAvailable"
         ELSE "PegOutStartPegOut"
    ELSE "PegOutWait"

\* An interpret_withdrawer_status that takes a failed query as not started.
interpret_withdrawer_status_error_not_started(g, st) ==
    IF g.peg_out_transaction /\ st["peg_out"].ok
    THEN IF is_confirmed(st["peg_out"])
         THEN "PegOutComplete"
         ELSE "PegOutWait"
    ELSE "PegOutNotStarted"

\* withdrawer_status and interpret_withdrawer_status (lines 1424-1454).
interpret_withdrawer_status(g, st) ==
    IF g.peg_out_transaction
    THEN IF is_confirmed(st["peg_out"])
         THEN "PegOutComplete"
         ELSE "PegOutWait"
    ELSE "PegOutNotStarted"

\* The statuses operator_status reads, and those whose block height it reads.
OperatorReadTxs ==
    {"assert_final", "challenge", "disprove_chain", "disprove",
     "peg_out_confirm", "kick_off_1", "kick_off_2", "kick_off_timeout",
     "peg_out", "start_time_timeout", "start_time", "take_1", "take_2"}
OperatorHeightTxs == {"kick_off_1", "kick_off_2", "assert_final"}

(***************************************************************************)
(* Actions that complete and broadcast a transaction.                      *)
(***************************************************************************)
\* The transaction each action requires to be confirmed before it broadcasts.
Predecessor ==
    [t \in GraphTxs |->
        CASE t = "peg_out_confirm" -> "peg_out"
          [] t = "kick_off_1" -> "peg_out_confirm"
          [] t \in {"start_time", "challenge", "kick_off_2", "kick_off_timeout",
                    "start_time_timeout"} -> "kick_off_1"
          [] t \in {"assert_initial", "disprove_chain", "take_1"} -> "kick_off_2"
          [] t = "assert_final" -> "assert_initial"
          [] t \in {"disprove", "take_2"} -> "assert_final"]

\* A linkage in which take_1 does not spend connector B.
Inputs_take_1_without_connector_b ==
    [t \in StatusTxs |->
        CASE t = "kick_off_1" -> {<<"peg_out_confirm", 0>>}
          [] t = "start_time" -> {<<"kick_off_1", 2>>}
          [] t = "start_time_timeout" -> {<<"kick_off_1", 2>>, <<"kick_off_1", 1>>}
          [] t = "kick_off_2" -> {<<"kick_off_1", 1>>}
          [] t = "kick_off_timeout" -> {<<"kick_off_1", 1>>}
          [] t = "challenge" -> {<<"kick_off_1", 0>>}
          [] t = "assert_initial" -> {<<"kick_off_2", 1>>}
          [] t = "assert_final" -> {<<"assert_initial", 0>>}
          [] t = "disprove" -> {<<"assert_final", 1>>, <<"assert_final", 2>>}
          [] t = "disprove_chain" -> {<<"kick_off_2", 1>>}
          [] t = "take_1" -> {<<"peg_in_confirm", 0>>, <<"kick_off_1", 0>>,
                              <<"kick_off_2", 0>>}
          [] t = "take_2" -> {<<"peg_in_confirm", 0>>, <<"assert_final", 0>>,
                              <<"assert_final", 1>>, <<"assert_final", 2>>}
          [] OTHER -> {}]

\* A linkage in which take_2 spends only assert_final[0].
Inputs_take_2_without_assert_outputs ==
    [t \in StatusTxs |->
        CASE t = "kick_off_1" -> {<<"peg_out_confirm", 0>>}
          [] t = "start_time" -> {<<"kick_off_1", 2>>}
          [] t = "start_time_timeout" -> {<<"kick_off_1", 2>>, <<"kick_off_1", 1>>}
          [] t = "kick_off_2" -> {<<"kick_off_1", 1>>}
          [] t = "kick_off_timeout" -> {<<"kick_off_1", 1>>}
          [] t = "challenge" -> {<<"kick_off_1", 0>>}
          [] t = "assert_initial" -> {<<"kick_off_2", 1>>}
          [] t = "assert_final" -> {<<"assert_initial", 0>>}
          [] t = "disprove" -> {<<"assert_final", 1>>, <<"assert_final", 2>>}
          [] t = "disprove_chain" -> {<<"kick_off_2", 1>>}
          [] t = "take_1" -> {<<"peg_in_confirm", 0>>, <<"kick_off_1", 0>>,
                              <<"kick_off_2", 0>>, <<"kick_off_2", 1>>}
          [] t = "take_2" -> {<<"assert_final", 0>>}
          [] OTHER -> {}]

\* Linkage: the outputs each transaction spends, as <<producer, vout>>.
Inputs ==
    [t \in StatusTxs |->
        CASE t = "kick_off_1" -> {<<"peg_out_confirm", 0>>}
          [] t = "start_time" -> {<<"kick_off_1", 2>>}
          [] t = "start_time_timeout" -> {<<"kick_off_1", 2>>, <<"kick_off_1", 1>>}
          [] t = "kick_off_2" -> {<<"kick_off_1", 1>>}
          [] t = "kick_off_timeout" -> {<<"kick_off_1", 1>>}
          [] t = "challenge" -> {<<"kick_off_1", 0>>}
          [] t = "assert_initial" -> {<<"kick_off_2", 1>>}
          [] t = "assert_final" -> {<<"assert_initial", 0>>}
          [] t = "disprove" -> {<<"assert_final", 1>>, <<"assert_final", 2>>}
          [] t = "disprove_chain" -> {<<"kick_off_2", 1>>}
          [] t = "take_1" -> {<<"peg_in_confirm", 0>>, <<"kick_off_1", 0>>,
                              <<"kick_off_2", 0>>, <<"kick_off_2", 1>>}
          [] t = "take_2" -> {<<"peg_in_confirm", 0>>, <<"assert_final", 0>>,
                              <<"assert_final", 1>>, <<"assert_final", 2>>}
          [] OTHER -> {}]

\* The transactions that spend kick_off_2[1] (connector B).
ConnectorBSpenders == {t \in StatusTxs : <<"kick_off_2", 1>> \in Inputs[t]}

\* No transaction the chain holds (mined, or accepted before) spends an
\* input of t; external funding inputs are taken as unspent.
input_unspent(t, st, accepted) ==
    \A other \in StatusTxs :
        (Inputs[other] \cap Inputs[t] # {}) =>
            /\ ~is_confirmed(st[other])
            /\ ~\E b \in accepted : b.tx = other

\* The peg-in confirm transaction the graph was built on is mined.
peg_in_confirm_status == Confirmed(0)

\* The chain accepts a broadcast transaction when its witness verifies, the
\* transactions that fund it are confirmed and its inputs are not spent by a
\* transaction the chain holds.
chain_accepts(body, st, accepted) ==
    /\ body.witness_valid
    /\ \A i \in Inputs[body.tx] :
          is_confirmed(IF i[1] = "peg_in_confirm" THEN peg_in_confirm_status
                       ELSE st[i[1]])
    /\ input_unspent(body.tx, st, accepted)

\* A disprove_chain that finalizes the transaction as it is stored.
disprove_chain_without_add_output(g, output_script_pubkey) == g

\* disprove_chain (lines 1848-1850): complete the transaction with the output.
disprove_chain_complete(g, output_script_pubkey) ==
    [g EXCEPT !.txs["disprove_chain"] = add_output(@, output_script_pubkey)]

\* disprove_chain (lines 1842-1847): proceeds when the transaction is not mined
\* and kick_off_2 is confirmed; panics otherwise, before it changes anything.
disprove_chain_proceeds(g, st) ==
    /\ ~is_confirmed(st["disprove_chain"])
    /\ is_confirmed(st["kick_off_2"])

\* verify_if_not_mined: the action goes on only while the transaction is not
\* mined.
not_mined(st, t) == ~is_confirmed(st[t])


\* peg_out (lines 1456-1478).
peg_out_proceeds(g, st) ==
    /\ g.peg_out_chain_event
    /\ g.peg_out_transaction => not_mined(st, "peg_out")

peg_out_complete(g) == [g EXCEPT !.peg_out_transaction = TRUE]

\* peg_out_confirm (lines 1480-1504).
peg_out_confirm_proceeds(g, st) ==
    /\ not_mined(st, "peg_out_confirm")
    /\ g.peg_out_transaction
    /\ is_confirmed(st["peg_out"])

\* kick_off_1 (lines 1506-1554); the unwraps of peg_out_transaction and
\* peg_out_chain_event panic on None.
kick_off_1_proceeds(g, st) ==
    /\ not_mined(st, "kick_off_1")
    /\ is_confirmed(st["peg_out_confirm"])
    /\ g.peg_out_transaction
    /\ g.peg_out_chain_event

\* challenge (lines 1556-1582).
challenge_proceeds(g, st) ==
    /\ not_mined(st, "challenge")
    /\ is_confirmed(st["kick_off_1"])

challenge_complete(g, output_script_pubkey) ==
    [g EXCEPT !.txs["challenge"] = add_output(@, output_script_pubkey)]

\* start_time (lines 1584-1612).
start_time_proceeds(g, st) ==
    /\ not_mined(st, "start_time")
    /\ is_confirmed(st["kick_off_1"])

\* start_time_timeout (lines 1614-1655).
start_time_timeout_proceeds(g, st, height) ==
    /\ not_mined(st, "start_time_timeout")
    /\ is_confirmed(st["kick_off_1"])
    /\ timelock_elapsed(st["kick_off_1"],
                        connector_1_num_blocks_timelock_leaf_2, height)

start_time_timeout_complete(g, output_script_pubkey) ==
    [g EXCEPT !.txs["start_time_timeout"] = add_output(@, output_script_pubkey)]

\* A kick_off_2 that does not wait for the timelock.
kick_off_2_proceeds_without_timelock(g, st, height) ==
    /\ not_mined(st, "kick_off_2")
    /\ is_confirmed(st["kick_off_1"])

\* kick_off_2 (lines 1657-1707).
kick_off_2_proceeds(g, st, height) ==
    /\ not_mined(st, "kick_off_2")
    /\ is_confirmed(st["kick_off_1"])
    /\ timelock_elapsed(st["kick_off_1"],
                        connector_1_num_blocks_timelock_leaf_0, height)

\* kick_off_timeout (lines 1709-1750); the transaction is finalized before the
\* output is added to the stored one.
kick_off_timeout_proceeds(g, st, height) ==
    /\ not_mined(st, "kick_off_timeout")
    /\ is_confirmed(st["kick_off_1"])
    /\ timelock_elapsed(st["kick_off_1"],
                        connector_1_num_blocks_timelock_leaf_1, height)

kick_off_timeout_complete(g, output_script_pubkey) ==
    [g EXCEPT !.txs["kick_off_timeout"] = add_output(@, output_script_pubkey)]

\* assert_initial (lines 1752-1783).
assert_initial_proceeds(g, st, height) ==
    /\ not_mined(st, "assert_initial")
    /\ is_confirmed(st["kick_off_2"])
    /\ timelock_elapsed(st["kick_off_2"],
                        connector_b_num_blocks_timelock_1, height)

\* assert_final (lines 1785-1803).
assert_final_proceeds(g, st) ==
    /\ not_mined(st, "assert_final")
    /\ is_confirmed(st["assert_initial"])

\* disprove (lines 1805-1839).
disprove_proceeds(g, st) ==
    /\ not_mined(st, "disprove")
    /\ is_confirmed(st["assert_final"])

disprove_complete(g, output_script_pubkey) ==
    [g EXCEPT !.txs["disprove"] = add_output(@, output_script_pubkey)]

\* The outcomes of connector_c.generate_disprove_witness.
DisproveWitnesses == {"no_witness", "witness"}

\* A disprove that completes the transaction before it looks for a witness.
disprove_without_witness_completed(g, output_script_pubkey) ==
    disprove_complete(g, output_script_pubkey)

\* disprove with no witness (lines 1820-1823): the panic of unwrap comes
\* before the transaction is completed.
disprove_without_witness(g, output_script_pubkey) == g

\* A take_1 that waits for the assert chain before it proceeds.
take_1_proceeds_after_assert(g, st, height) ==
    /\ not_mined(st, "take_1")
    /\ is_confirmed(st["kick_off_2"])
    /\ is_confirmed(st["assert_final"])
    /\ timelock_elapsed(st["kick_off_2"], connector_3_num_blocks_timelock, height)

\* take_1 (lines 1860-1902).
take_1_proceeds(g, st, height) ==
    /\ \A t \in {"take_1", "challenge", "assert_final", "disprove_chain"} :
          not_mined(st, t)
    /\ is_confirmed(peg_in_confirm_status)
    /\ is_confirmed(st["kick_off_1"])
    /\ is_confirmed(st["kick_off_2"])
    /\ timelock_elapsed(st["kick_off_2"], connector_3_num_blocks_timelock, height)

\* take_2 (lines 1904-1940).
take_2_proceeds(g, st, height) ==
    /\ \A t \in {"take_2", "take_1", "disprove"} : not_mined(st, t)
    /\ is_confirmed(peg_in_confirm_status)
    /\ is_confirmed(st["assert_final"])
    /\ timelock_elapsed(st["assert_final"], connector_4_num_blocks_timelock, height)

\* The transactions that are signed when they are broadcast, not pre-signed.
SignedAtBroadcastTxs ==
    {"peg_out", "peg_out_confirm", "kick_off_1", "challenge", "start_time",
     "kick_off_2"}

\* finalize of a stored transaction of the graph.
finalize_tx(g, t, keys) ==
    IF t \in SignedAtBroadcastTxs
    THEN [tx |-> t, added_outputs |-> g.txs[t].added_outputs,
          witness_valid |-> TRUE]
    ELSE finalize(t, g.txs[t], keys)

(***************************************************************************)
(* Participants: the operator created the graph and distributed it;    *)
(* verifier v works on its own copy graphs[v].                             *)
(***************************************************************************)
Operator == "operator"

\* The n-of-n verifier public keys: the two verifier contexts of the test
\* setup (verifier_0_context, verifier_1_context).
VerifierKeys == {"K1", "K2"}

Participants == DOMAIN graphs

InitPresign(verifiers) ==
    /\ signers = verifiers
    /\ graphs = [p \in verifiers \cup {Operator} |-> NewGraph]
    /\ pushes = 0
    /\ secret_nonces = [v \in verifiers |-> EmptyMap]
    /\ signed = {}
    /\ merged = {}
    /\ blockchain_height = 0
    /\ verifier_result = [p \in verifiers \cup {Operator} |-> "none"]
    /\ operator_result = "none"
    /\ withdrawer_result = "none"
    /\ action_report = "none"
    /\ all_events = << >>
    /\ event_result = NoResult
    /\ chain_event = NoEvent
    /\ stored_graph = NoStored
    /\ validate_result = "none"
    /\ chunker = NoChunker
    /\ chain_txs = {}
    /\ broadcasts = {}

Init == InitPresign(VerifierKeys) /\ tx_status = NoStatus

\* A verifier calls push_verifier_nonces on its copy and keeps the returned
\* secret nonces.
DoPush(v) ==
    /\ pushes' = pushes + 1
    /\ graphs' = [graphs EXCEPT ![v] = push_verifier_nonces(@, v, pushes + 1)]
    /\ secret_nonces' = [secret_nonces EXCEPT ![v] = returned_secret_nonces(pushes + 1)]
    /\ UNCHANGED <<signers, signed, merged, chain_vars, status_vars>>

PushVerifierNonces(v) ==
    /\ pushes < MaxPushes
    /\ DoPush(v)

\* A verifier calls verifier_sign on its copy with the secret nonces it holds.
VerifierSign(v) ==
    /\ graphs' = [graphs EXCEPT ![v] = verifier_sign(@, v, secret_nonces[v])]
    /\ signed' = IF verifier_sign_panics(graphs[v], v, secret_nonces[v])
                 THEN signed ELSE signed \cup {v}
    /\ UNCHANGED <<signers, pushes, secret_nonces, merged, chain_vars, status_vars>>

\* A participant merges a copy it received into its own.
Merge(dst, src) ==
    /\ dst # src
    /\ graphs' = [graphs EXCEPT ![dst] = merge(@, graphs[src])]
    /\ UNCHANGED <<signers, pushes, secret_nonces, signed, merged, chain_vars, status_vars>>

Next ==
    \/ \E v \in signers : PushVerifierNonces(v)
    \/ \E v \in signers : VerifierSign(v)
    \/ \E dst \in Participants, src \in Participants : Merge(dst, src)

Spec == Init /\ [][Next]_vars

(***************************************************************************)
(* Merge convergence scenario: three verifiers each push their nonces on   *)
(* their own copy, exchange copies until they hold the union, sign, and    *)
(* then merge the signed copies pairwise.                                  *)
(***************************************************************************)
ConvergenceKeys == {"K1", "K2", "K3"}

InitConverge == InitPresign(ConvergenceKeys) /\ tx_status = NoStatus

AllPushed == \A v \in signers : secret_nonces[v] # EmptyMap

ConvPush(v) ==
    /\ secret_nonces[v] = EmptyMap
    /\ DoPush(v)

ConvExchange(dst, src) ==
    /\ AllPushed
    /\ signed = {}
    /\ Merge(dst, src)

ConvSign(v) ==
    /\ v \notin signed
    /\ merged = {}
    /\ has_all_nonces(graphs[v], signers)
    /\ VerifierSign(v)

ConvMerge(dst, src) ==
    /\ signed = signers
    /\ dst # src
    /\ graphs' = [graphs EXCEPT ![dst] = merge(@, graphs[src])]
    /\ merged' = merged \cup {<<dst, src>>}
    /\ UNCHANGED <<signers, pushes, secret_nonces, signed, chain_vars, status_vars>>

\* The reward script a participant supplies.
RewardScript(p) == <<"pay_to_pubkey", p>>

\* broadcast_and_verify: the chain takes the transaction or refuses it; the
\* log keeps what was broadcast and what the chain showed at that moment.
Broadcast(p, t, g, body, script) ==
    LET accepted == chain_accepts(body, tx_status, chain_txs)
    IN /\ graphs' = [graphs EXCEPT ![p] = g]
       /\ chain_txs' = IF accepted THEN chain_txs \cup {body} ELSE chain_txs
       /\ broadcasts' = broadcasts \cup
              {[by |-> p, body |-> body, script |-> script,
                before |-> IF t \in GraphTxs THEN graphs[p].txs[t] ELSE EmptyTx,
                input_unspent |-> input_unspent(t, tx_status, chain_txs),
                accepted |-> accepted,
                seen |-> tx_status,
                at_height |-> blockchain_height]}
       /\ UNCHANGED <<signers, pushes, secret_nonces, signed, merged,
                      tx_status, blockchain_height, status_vars>>

\* A verifier calls disprove_chain on its copy (lines 1841-1858): complete,
\* finalize, broadcast.
DisproveChain(p, output_script_pubkey) ==
    LET g == disprove_chain_complete(graphs[p], output_script_pubkey)
        body == finalize("disprove_chain", g.txs["disprove_chain"], signers)
    IN /\ disprove_chain_proceeds(graphs[p], tx_status)
       /\ Len(graphs[p].txs["disprove_chain"].added_outputs) < MaxAddedOutputs
       /\ Broadcast(p, "disprove_chain", g, body, output_script_pubkey)

ConvDisproveChain(p) == DisproveChain(p, RewardScript(p))

NextConverge ==
    \/ \E v \in signers : ConvPush(v)
    \/ \E dst \in signers, src \in signers : ConvExchange(dst, src)
    \/ \E v \in signers : ConvSign(v)
    \/ \E dst \in signers, src \in signers : ConvMerge(dst, src)

SpecConverge == InitConverge /\ [][NextConverge]_vars

\* The finalization scenario: the two verifiers of the test setup pre-sign,
\* exchange their copies and call disprove_chain.
InitFinalize ==
    /\ InitPresign(VerifierKeys)
    /\ tx_status = Snapshot({"kick_off_2"}, {}, EmptyMap)

NextFinalize ==
    \/ \E v \in signers : ConvPush(v)
    \/ \E dst \in signers, src \in signers : ConvExchange(dst, src)
    \/ \E v \in signers : ConvSign(v)
    \/ \E dst \in signers, src \in signers : ConvMerge(dst, src)
    \/ \E p \in signers : ConvDisproveChain(p)

SpecFinalize == InitFinalize /\ [][NextFinalize]_vars

(***************************************************************************)
(* Verifier projection: a verifier's graph, any snapshot of the statuses   *)
(* verifier_status reads and any chain height.                             *)
(***************************************************************************)
InitVerifierStatus ==
    /\ signers = VerifierKeys
    /\ \E presigned \in BOOLEAN :
          graphs = [p \in {"K1"} |-> [NewGraph EXCEPT !.n_of_n_presigned = presigned]]
    /\ pushes = 0
    /\ secret_nonces = [v \in VerifierKeys |-> EmptyMap]
    /\ signed = {}
    /\ merged = {}
    /\ \E confirmed \in SUBSET VerifierReadTxs, failed \in SUBSET VerifierReadTxs,
          heights \in [VerifierHeightTxs -> -1..MaxHeight] :
          /\ Cardinality(failed) <= MaxErrors
          /\ tx_status = Snapshot(confirmed, failed, heights)
    /\ blockchain_height \in 0..MaxNow
    /\ verifier_result = [p \in {"K1"} |-> "none"]
    /\ operator_result = "none"
    /\ withdrawer_result = "none"
    /\ action_report = "none"
    /\ all_events = << >>
    /\ event_result = NoResult
    /\ chain_event = NoEvent
    /\ stored_graph = NoStored
    /\ validate_result = "none"
    /\ chunker = NoChunker
    /\ chain_txs = {}
    /\ broadcasts = {}

\* A verifier calls verifier_status on its graph.
VerifierStatus(p) ==
    /\ verifier_result[p] = "none"
    /\ verifier_result' =
           [verifier_result EXCEPT ![p] =
               verifier_status(graphs[p], tx_status, blockchain_height)]
    /\ UNCHANGED <<presign_vars, chain_vars, operator_result, withdrawer_result,
                   call_vars>>

NextVerifierStatus == \E p \in Participants : VerifierStatus(p)

SpecVerifierStatus == InitVerifierStatus /\ [][NextVerifierStatus]_vars

(***************************************************************************)
(* The operator and withdrawer projections over the snapshots a chain can  *)
(* show: a confirmed transaction has its predecessor confirmed, no earlier *)
(* than it and no later than the chain height; one query may fail.         *)
(***************************************************************************)
ChainConsistent(confirmed) ==
    \A t \in confirmed \cap GraphTxs : Predecessor[t] \in confirmed

ConsistentSets(txs) == {c \in SUBSET txs : ChainConsistent(c)}
OperatorSnapshots == ConsistentSets(StatusTxs)
WithdrawerSnapshots == ConsistentSets({"peg_out"})

\* The heights a status can carry: none (-1) when unconfirmed, none or a
\* height up to the chain height when confirmed.
HeightChoices(t, confirmed, now) ==
    IF t \in confirmed
    THEN -1..(IF now < MaxHeight THEN now ELSE MaxHeight)
    ELSE {-1}

\* A transaction is mined no earlier than the one it spends.
HeightsConsistent(heights) ==
    \A t, u \in DOMAIN heights :
        (heights[t] >= 0 /\ heights[u] >= 0
           /\ (Predecessor[u] = t \/ Predecessor[Predecessor[u]] = t)) =>
              heights[t] <= heights[u]

\* No query fails, or the query of one transaction fails.
FailedQueries == {{}} \cup {{t} : t \in StatusTxs}

InitProjection(snapshots) ==
    /\ signers = VerifierKeys
    /\ pushes = 0
    /\ secret_nonces = [v \in VerifierKeys |-> EmptyMap]
    /\ signed = {}
    /\ merged = {}
    /\ chain_txs = {}
    /\ broadcasts = {}
    /\ verifier_result = [p \in {Operator} |-> "none"]
    /\ operator_result = "none"
    /\ withdrawer_result = "none"
    /\ action_report = "none"
    /\ all_events = << >>
    /\ event_result = NoResult
    /\ chain_event = NoEvent
    /\ stored_graph = NoStored
    /\ validate_result = "none"
    /\ chunker = NoChunker
    /\ blockchain_height \in 0..MaxNow
    /\ \E presigned \in BOOLEAN, event \in BOOLEAN, created \in BOOLEAN :
          /\ created => event
          /\ graphs = [p \in {Operator} |->
                          [NewGraph EXCEPT !.n_of_n_presigned = presigned,
                                           !.peg_out_chain_event = event,
                                           !.peg_out_transaction = created]]
          /\ \E confirmed \in (IF created THEN snapshots ELSE {{}}) :
             \E h1 \in HeightChoices("kick_off_1", confirmed, blockchain_height),
                h2 \in HeightChoices("kick_off_2", confirmed, blockchain_height),
                h3 \in HeightChoices("assert_final", confirmed, blockchain_height) :
                LET heights == [t \in OperatorHeightTxs |->
                                   CASE t = "kick_off_1" -> h1
                                     [] t = "kick_off_2" -> h2
                                     [] t = "assert_final" -> h3]
                IN /\ HeightsConsistent(heights)
                   /\ \E failed \in FailedQueries :
                         tx_status = Snapshot(confirmed, failed, heights)

InitOperatorStatus == InitProjection(OperatorSnapshots)

\* The operator calls operator_status on its graph.
OperatorStatus ==
    /\ operator_result = "none"
    /\ operator_result' =
           operator_status(graphs[Operator], tx_status, blockchain_height)
    /\ UNCHANGED <<presign_vars, chain_vars, verifier_result, withdrawer_result,
                   call_vars>>

NextOperatorStatus == OperatorStatus

SpecOperatorStatus == InitOperatorStatus /\ [][NextOperatorStatus]_vars

InitWithdrawerStatus == InitProjection(WithdrawerSnapshots)

\* The withdrawer calls withdrawer_status on the graph.
WithdrawerStatus ==
    /\ withdrawer_result = "none"
    /\ withdrawer_result' = interpret_withdrawer_status(graphs[Operator], tx_status)
    /\ UNCHANGED <<presign_vars, chain_vars, verifier_result, operator_result,
                   call_vars>>

NextWithdrawerStatus == WithdrawerStatus

SpecWithdrawerStatus == InitWithdrawerStatus /\ [][NextWithdrawerStatus]_vars

(***************************************************************************)
(* The actions on a pre-signed graph, over a chain that mines what it      *)
(* accepted.                                                               *)
(***************************************************************************)
\* The graph after both verifiers pushed their nonces and pre-signed, with
\* the peg-out event set.
PresignedGraph ==
    LET pushed == push_verifier_nonces(
                      push_verifier_nonces(NewGraph, "K1", 1), "K2", 2)
        presigned == verifier_sign(
                         verifier_sign(pushed, "K1", returned_secret_nonces(1)),
                         "K2", returned_secret_nonces(2))
    IN [presigned EXCEPT !.peg_out_chain_event = TRUE]

InitActions ==
    /\ signers = VerifierKeys
    /\ pushes = Cardinality(VerifierKeys)
    /\ secret_nonces = [v \in VerifierKeys |-> EmptyMap]
    /\ signed = VerifierKeys
    /\ merged = {}
    /\ chain_txs = {}
    /\ broadcasts = {}
    /\ verifier_result = [p \in {Operator} |-> "none"]
    /\ operator_result = "none"
    /\ withdrawer_result = "none"
    /\ action_report = "none"
    /\ all_events = << >>
    /\ event_result = NoResult
    /\ chain_event = NoEvent
    /\ stored_graph = NoStored
    /\ validate_result = "none"
    /\ chunker = NoChunker
    /\ blockchain_height \in 0..MaxNow
    /\ \E created \in BOOLEAN :
          /\ graphs = [p \in {Operator} |->
                          [PresignedGraph EXCEPT !.peg_out_transaction = created]]
          /\ \E confirmed \in (IF created THEN OperatorSnapshots ELSE {{}}) :
             \E h1 \in HeightChoices("kick_off_1", confirmed, blockchain_height),
                h2 \in HeightChoices("kick_off_2", confirmed, blockchain_height),
                h3 \in HeightChoices("assert_final", confirmed, blockchain_height) :
                LET heights == [t \in OperatorHeightTxs |->
                                   CASE t = "kick_off_1" -> h1
                                     [] t = "kick_off_2" -> h2
                                     [] t = "assert_final" -> h3]
                IN /\ HeightsConsistent(heights)
                   /\ tx_status = Snapshot(confirmed, {}, heights)

\* The script recorded for an action that adds no output.
NoScript == <<"none", "none">>

CanAddOutput(p, t) == Len(graphs[p].txs[t].added_outputs) < MaxAddedOutputs

CanBroadcast == Cardinality(broadcasts) < MaxBroadcasts

PegOut(p) ==
    /\ CanBroadcast
    /\ peg_out_proceeds(graphs[p], tx_status)
    /\ Broadcast(p, "peg_out", peg_out_complete(graphs[p]),
                 [tx |-> "peg_out", added_outputs |-> << >>,
                  witness_valid |-> TRUE], NoScript)

\* The actions that finalize the stored transaction as it is.
Plain(p, t, proceeds) ==
    /\ CanBroadcast
    /\ proceeds
    /\ Broadcast(p, t, graphs[p], finalize_tx(graphs[p], t, signers), NoScript)

\* The actions that add an output and then finalize.
WithOutput(p, t, proceeds, g, script) ==
    /\ CanBroadcast
    /\ proceeds
    /\ CanAddOutput(p, t)
    /\ Broadcast(p, t, g, finalize_tx(g, t, signers), script)

PegOutConfirm(p) ==
    Plain(p, "peg_out_confirm", peg_out_confirm_proceeds(graphs[p], tx_status))
KickOff1(p) == Plain(p, "kick_off_1", kick_off_1_proceeds(graphs[p], tx_status))
Challenge(p) ==
    WithOutput(p, "challenge", challenge_proceeds(graphs[p], tx_status),
               challenge_complete(graphs[p], RewardScript(p)), RewardScript(p))
StartTime(p) == Plain(p, "start_time", start_time_proceeds(graphs[p], tx_status))
StartTimeTimeout(p) ==
    WithOutput(p, "start_time_timeout",
               start_time_timeout_proceeds(graphs[p], tx_status, blockchain_height),
               start_time_timeout_complete(graphs[p], RewardScript(p)),
               RewardScript(p))
KickOff2(p) ==
    Plain(p, "kick_off_2",
          kick_off_2_proceeds(graphs[p], tx_status, blockchain_height))
\* kick_off_timeout broadcasts the transaction finalized before add_output.
KickOffTimeout(p) ==
    /\ CanBroadcast
    /\ kick_off_timeout_proceeds(graphs[p], tx_status, blockchain_height)
    /\ CanAddOutput(p, "kick_off_timeout")
    /\ Broadcast(p, "kick_off_timeout",
                 kick_off_timeout_complete(graphs[p], RewardScript(p)),
                 finalize_tx(graphs[p], "kick_off_timeout", signers),
                 RewardScript(p))
AssertInitial(p) ==
    Plain(p, "assert_initial",
          assert_initial_proceeds(graphs[p], tx_status, blockchain_height))
AssertFinal(p) ==
    Plain(p, "assert_final", assert_final_proceeds(graphs[p], tx_status))
\* disprove: generate_disprove_witness yields a witness or none; unwrap
\* (line 1823) panics on none, before add_input_output.
Disprove(p) ==
    \E witness \in DisproveWitnesses :
        IF witness = "witness"
        THEN WithOutput(p, "disprove", disprove_proceeds(graphs[p], tx_status),
                        disprove_complete(graphs[p], RewardScript(p)),
                        RewardScript(p))
        ELSE /\ disprove_proceeds(graphs[p], tx_status)
             /\ graphs' = [graphs EXCEPT ![p] =
                               disprove_without_witness(@, RewardScript(p))]
             /\ action_report' = "cannot_disprove"
             /\ UNCHANGED <<signers, pushes, secret_nonces, signed, merged,
                            chain_vars, verifier_result, operator_result,
                            withdrawer_result, event_vars, validate_vars,
                            chunker>>
Take1(p) ==
    Plain(p, "take_1", take_1_proceeds(graphs[p], tx_status, blockchain_height))
Take2(p) ==
    Plain(p, "take_2", take_2_proceeds(graphs[p], tx_status, blockchain_height))

\* A block is mined: the chain height grows by one and the transactions the
\* chain accepted are confirmed in the new block.
Mine ==
    /\ blockchain_height < MaxNow
    /\ blockchain_height' = blockchain_height + 1
    /\ tx_status' =
           [t \in StatusTxs |->
               IF ~is_confirmed(tx_status[t]) /\ \E b \in chain_txs : b.tx = t
               THEN Confirmed(blockchain_height + 1)
               ELSE tx_status[t]]
    /\ UNCHANGED <<presign_vars, chain_txs, broadcasts, status_vars>>

NextActions ==
    \/ \E p \in Participants : PegOut(p)
    \/ \E p \in Participants : PegOutConfirm(p)
    \/ \E p \in Participants : KickOff1(p)
    \/ \E p \in Participants : Challenge(p)
    \/ \E p \in Participants : StartTime(p)
    \/ \E p \in Participants : StartTimeTimeout(p)
    \/ \E p \in Participants : KickOff2(p)
    \/ \E p \in Participants : KickOffTimeout(p)
    \/ \E p \in Participants : AssertInitial(p)
    \/ \E p \in Participants : AssertFinal(p)
    \/ \E p \in Participants : Disprove(p)
    \/ \E p \in Participants : CanBroadcast /\ DisproveChain(p, RewardScript(p))
    \/ \E p \in Participants : Take1(p)
    \/ \E p \in Participants : Take2(p)
    \/ Mine

SpecActions == InitActions /\ [][NextActions]_vars

(***************************************************************************)
(* Properties of the pre-signing rounds.                                   *)
(***************************************************************************)
PreSignedEight ==
    {"assert_initial", "assert_final", "disprove", "disprove_chain",
     "kick_off_timeout", "start_time_timeout", "take_1", "take_2"}

GraphConflict(a, b) == \E t \in GraphTxs : TxConflict(a.txs[t], b.txs[t])

\* C1: n_of_n_presigned is true only when every one of the eight pre-signed
\* transactions holds partial signatures of all n-of-n signers; after
\* verifier_sign by a strict subset of the signers it is still false.
C1_PresignedOnlyWhenAllSigned ==
    \A p \in Participants :
        graphs[p].n_of_n_presigned =>
            \A t \in PreSignedEight :
                tx_has_all_signatures(graphs[p].txs[t], signers)

\* C2: every stored partial signature was produced when the public nonces of
\* all verifiers were present in the graph (verifier_sign is refused unless
\* has_all_nonces holds).
C2_SignedOnlyAfterAllNonces ==
    \A p \in Participants : \A t \in GraphTxs :
        \A k \in DOMAIN graphs[p].txs[t].musig2_signatures :
            signers \subseteq DOMAIN graphs[p].txs[t].musig2_signatures[k].agg

\* C3: has_all_signatures(S) for the n-of-n signer set S implies
\* n_of_n_presigned, on every copy, also one that got the signatures by merge.
C3_AllSignaturesImplyPresigned ==
    \A p \in Participants :
        has_all_signatures(graphs[p], signers) => graphs[p].n_of_n_presigned

\* C4: the nonce and signature rounds range over exactly the eight pre-signed
\* transactions: no other transaction ever holds a nonce or a partial
\* signature, a verifier that pushed holds its nonce (and was returned a secret
\* nonce) for each of the eight, a verifier that signed holds its partial
\* signature on each of the eight, and the completeness queries read exactly
\* the eight.
C4_PreSignedSetExact ==
    \A p \in Participants :
        /\ \A t \in GraphTxs \ PreSignedEight : graphs[p].txs[t] = EmptyTx
        /\ (p \in signers /\ secret_nonces[p] # EmptyMap) =>
               /\ DOMAIN secret_nonces[p] = PreSignedEight
               /\ \A t \in PreSignedEight : has_nonces_for(graphs[p].txs[t], p)
        /\ p \in signed =>
               \A t \in PreSignedEight : has_signatures_for(graphs[p].txs[t], p)
        /\ has_all_nonces(graphs[p], signers) <=>
               \A t \in PreSignedEight : tx_has_all_nonces(graphs[p].txs[t], signers)
        /\ has_all_signatures(graphs[p], signers) <=>
               \A t \in PreSignedEight :
                   tx_has_all_signatures(graphs[p].txs[t], signers)

\* A copy that got every signature, while start_time holds nothing.
C4_Witness ==
    /\ signed = signers
    /\ has_all_signatures(graphs[Operator], signers)
    /\ graphs[Operator].txs["start_time"] = EmptyTx

\* C5: a merge of two graphs that hold different nonces or partial signatures
\* for the same (transaction, input, signer) fails with a protocol-violation
\* error and mutates neither graph.
C5_ConflictingMergeFails ==
    \A dst \in Participants, src \in Participants :
        GraphConflict(graphs[dst], graphs[src]) =>
            /\ merge_result(graphs[dst], graphs[src]) = "protocol_violation"
            /\ merge(graphs[dst], graphs[src]) = graphs[dst]

TxMaps(g) == [t \in PreSignedEight |-> g.txs[t]]

\* C6: on conflict-free copies merge is idempotent, commutative and associative
\* on the per-transaction nonce and partial-signature maps, and the resulting
\* maps are the unions.
C6_MergeAlgebra ==
    /\ \A a \in Participants : merge(graphs[a], graphs[a]) = graphs[a]
    /\ \A a \in Participants, b \in Participants :
          LET A == graphs[a]
              B == graphs[b]
              AB == merge(A, B)
          IN ~GraphConflict(A, B) =>
                /\ TxMaps(AB) = TxMaps(merge(B, A))
                /\ \A t \in PreSignedEight :
                      /\ DOMAIN AB.txs[t].musig2_nonces =
                            DOMAIN A.txs[t].musig2_nonces
                                \cup DOMAIN B.txs[t].musig2_nonces
                      /\ DOMAIN AB.txs[t].musig2_signatures =
                            DOMAIN A.txs[t].musig2_signatures
                                \cup DOMAIN B.txs[t].musig2_signatures
                /\ \A c \in Participants :
                      LET D == graphs[c]
                      IN (~GraphConflict(A, D) /\ ~GraphConflict(B, D)) =>
                            TxMaps(merge(A, merge(B, D))) = TxMaps(merge(AB, D))

\* Two conflict-free copies that hold different entries, one of them signed.
C6_Witness ==
    /\ ~GraphConflict(graphs["K1"], graphs["K2"])
    /\ DOMAIN graphs["K1"].txs["take_2"].musig2_nonces = {"K1"}
    /\ DOMAIN graphs["K2"].txs["take_2"].musig2_nonces = {"K1", "K2"}
    /\ DOMAIN graphs["K2"].txs["take_2"].musig2_signatures = {"K2"}

AllOrderedPairs == {<<a, b>> \in signers \X signers : a # b}

\* C7: merge convergence: after each of the three verifiers pushed its nonces
\* on its own copy, the copies were exchanged, each verifier signed against
\* the union, and every copy merged every other copy (in any order), every
\* copy satisfies has_all_signatures([K1, K2, K3]).
C7_MergeConvergence ==
    merged = AllOrderedPairs =>
        \A p \in signers : has_all_signatures(graphs[p], ConvergenceKeys)

\* The pairwise merges are done, after three pushes and three signatures.
C7_Witness ==
    /\ signers = ConvergenceKeys
    /\ pushes = Cardinality(ConvergenceKeys)
    /\ signed = ConvergenceKeys
    /\ merged = AllOrderedPairs
    /\ has_all_signatures(graphs["K3"], ConvergenceKeys)

(***************************************************************************)
(* Properties of the verifier projection.                                  *)
(***************************************************************************)
Projected(p) == verifier_result[p] # "none"

\* C9: verifier_status returns Presign if and only if n_of_n_presigned is
\* false, for every combination of transaction statuses and chain height.
C9_PresignIffNotPresigned ==
    \A p \in Participants :
        Projected(p) =>
            (verifier_result[p] = "PegOutPresign" <=> ~graphs[p].n_of_n_presigned)

\* A pre-signed graph projected with nothing confirmed, and one not pre-signed
\* projected with kick_off_2 and take_1 confirmed.
C9_Witness ==
    \E p \in Participants :
        /\ Projected(p)
        /\ ~graphs[p].n_of_n_presigned
        /\ is_confirmed(tx_status["kick_off_2"])
        /\ is_confirmed(tx_status["take_1"])

\* C10: with n_of_n_presigned and kick_off_2 confirmed, verifier_status is
\* decided top-down, first match wins: Complete if take_1 or take_2 is
\* confirmed; else Failed if disprove or disprove_chain is confirmed; else
\* DisproveAvailable if assert_final is confirmed; else DisproveChainAvailable.
C10_KickOff2Branch ==
    \A p \in Participants :
        (/\ Projected(p)
         /\ graphs[p].n_of_n_presigned
         /\ is_confirmed(tx_status["kick_off_2"])) =>
            LET take == \/ is_confirmed(tx_status["take_1"])
                        \/ is_confirmed(tx_status["take_2"])
                disproved == \/ is_confirmed(tx_status["disprove"])
                             \/ is_confirmed(tx_status["disprove_chain"])
                asserted == is_confirmed(tx_status["assert_final"])
            IN /\ take => verifier_result[p] = "PegOutComplete"
               /\ (~take /\ disproved) => verifier_result[p] = "PegOutFailed"
               /\ (~take /\ ~disproved /\ asserted) =>
                     verifier_result[p] = "PegOutDisproveAvailable"
               /\ (~take /\ ~disproved /\ ~asserted) =>
                     verifier_result[p] = "PegOutDisproveChainAvailable"

\* Both a take and a disprove are confirmed and the projection ran.
C10_Witness ==
    \E p \in Participants :
        /\ Projected(p)
        /\ graphs[p].n_of_n_presigned
        /\ is_confirmed(tx_status["kick_off_2"])
        /\ is_confirmed(tx_status["take_2"])
        /\ is_confirmed(tx_status["disprove"])
        /\ verifier_result[p] = "PegOutComplete"

(***************************************************************************)
(* Properties of finalizing a pre-signed transaction.                      *)
(***************************************************************************)
\* C8: once every verifier pushed its nonce and then every verifier
\* pre-signed with the secret nonce it was returned, a disprove_chain
\* transaction that holds the nonces and partial signatures of all signers
\* finalizes, after the reward output is added at index 1, into a transaction
\* the chain accepts (its input being unspent) and whose output 1 pays the
\* supplied script.
C8_PreSignedFinalizes ==
    \A b \in broadcasts :
        (/\ tx_has_all_nonces(b.before, signers)
         /\ tx_has_all_signatures(b.before, signers)
         /\ b.before.added_outputs = << >>
         /\ b.input_unspent) =>
            /\ b.accepted
            /\ b.body \in chain_txs
            /\ Len(b.body.added_outputs) = 1
            /\ b.body.added_outputs[
                   1 + 1 - disprove_chain_base_outputs] = b.script

\* A fully signed disprove_chain was accepted, and a copy that lacked a
\* signature was refused.
C8_Witness ==
    /\ \E b \in broadcasts :
          /\ tx_has_all_signatures(b.before, signers)
          /\ b.accepted
          /\ b.body.added_outputs = <<RewardScript(b.by)>>
    /\ \E b \in broadcasts : ~b.accepted /\ ~tx_has_all_signatures(b.before, signers)

\* C11: with n_of_n_presigned, kick_off_2 unconfirmed and kick_off_1
\* confirmed at height h, verifier_status is decided top-down, first match
\* wins: Failed if start_time_timeout or kick_off_timeout is confirmed; else
\* StartTimeTimeoutAvailable if start_time is unconfirmed and
\* h + timelock_leaf_2 > now; else KickOffTimeoutAvailable if
\* h + timelock_leaf_1 > now; else ChallengeAvailable if challenge is
\* unconfirmed; else Wait.  An unconfirmed start_time whose leaf-2 test does
\* not match falls through to the later rules.
C11_KickOff1Branch ==
    \A p \in Participants :
        (/\ Projected(p)
         /\ graphs[p].n_of_n_presigned
         /\ ~is_confirmed(tx_status["kick_off_2"])
         /\ is_confirmed(tx_status["kick_off_1"])) =>
            LET h == tx_status["kick_off_1"].block_height
                timed_out == \/ is_confirmed(tx_status["start_time_timeout"])
                             \/ is_confirmed(tx_status["kick_off_timeout"])
                leaf_2 == /\ is_unconfirmed(tx_status["start_time"])
                          /\ h >= 0
                          /\ h + connector_1_num_blocks_timelock_leaf_2
                                 > blockchain_height
                leaf_1 == /\ h >= 0
                          /\ h + connector_1_num_blocks_timelock_leaf_1
                                 > blockchain_height
                open == is_unconfirmed(tx_status["challenge"])
            IN verifier_result[p] =
                  IF timed_out THEN "PegOutFailed"
                  ELSE IF leaf_2 THEN "PegOutStartTimeTimeoutAvailable"
                  ELSE IF leaf_1 THEN "PegOutKickOffTimeoutAvailable"
                  ELSE IF open THEN "PegOutChallengeAvailable"
                  ELSE "PegOutWait"

\* C12: kick-off timeout scenario: with kick_off_1 confirmed at height h and
\* start_time never broadcast, at chain height exactly
\* h + connector_1.timelock_leaf_2 the verifier status is
\* StartTimeTimeoutAvailable.
C12_StartTimeTimeoutAtBoundary ==
    \A p \in Participants :
        (/\ Projected(p)
         /\ graphs[p].n_of_n_presigned
         /\ ~is_confirmed(tx_status["kick_off_2"])
         /\ is_confirmed(tx_status["kick_off_1"])
         /\ tx_status["kick_off_1"].block_height >= 0
         /\ ~is_confirmed(tx_status["start_time_timeout"])
         /\ ~is_confirmed(tx_status["kick_off_timeout"])
         /\ is_unconfirmed(tx_status["start_time"])
         /\ blockchain_height = tx_status["kick_off_1"].block_height
                                   + connector_1_num_blocks_timelock_leaf_2) =>
            verifier_result[p] = "PegOutStartTimeTimeoutAvailable"

(***************************************************************************)
(* Properties of the operator and withdrawer projections.                  *)
(***************************************************************************)
OperatorGraph == graphs[Operator]
OperatorProjected == operator_result # "none"
GateOpen == OperatorGraph.n_of_n_presigned /\ OperatorGraph.peg_out_chain_event
PegOutConfirmed ==
    OperatorGraph.peg_out_transaction /\ is_confirmed(tx_status["peg_out"])
AvailableStatuses ==
    {"PegOutStartPegOut", "PegOutPegOutConfirmAvailable",
     "PegOutKickOff1Available", "PegOutStartTimeAvailable",
     "PegOutKickOff2Available", "PegOutAssertAvailable",
     "PegOutTake1Available", "PegOutTake2Available",
     "PegOutDisproveAvailable", "PegOutDisproveChainAvailable",
     "PegOutStartTimeTimeoutAvailable", "PegOutKickOffTimeoutAvailable",
     "PegOutChallengeAvailable"}

\* C13: operator_status returns Wait whenever n_of_n_presigned is false or no
\* peg-out chain event is set; when both hold and peg_out_transaction is
\* absent or unconfirmed it returns StartPegOut, whatever the other statuses.
C13_OperatorGate ==
    OperatorProjected =>
        /\ ~GateOpen => operator_result = "PegOutWait"
        /\ (/\ GateOpen
            /\ \/ ~OperatorGraph.peg_out_transaction
               \/ is_unconfirmed(tx_status["peg_out"])) =>
               operator_result = "PegOutStartPegOut"

\* The gate is closed with kick_off_1 confirmed, and the projection ran.
C13_Witness ==
    /\ OperatorProjected
    /\ ~OperatorGraph.n_of_n_presigned
    /\ OperatorGraph.peg_out_chain_event
    /\ is_confirmed(tx_status["kick_off_1"])
    /\ operator_result = "PegOutWait"

\* C14: with the gate open, peg-out confirmed, kick_off_2 unconfirmed,
\* kick_off_1 confirmed at height h, no timeout confirmed and start_time
\* confirmed, operator_status is KickOff2Available if and only if
\* h + connector_1.timelock_leaf_0 <= now, and Wait otherwise.
C14_KickOff2Boundary ==
    (/\ OperatorProjected
     /\ GateOpen
     /\ PegOutConfirmed
     /\ ~is_confirmed(tx_status["kick_off_2"])
     /\ is_confirmed(tx_status["kick_off_1"])
     /\ tx_status["kick_off_1"].block_height >= 0
     /\ ~is_confirmed(tx_status["start_time_timeout"])
     /\ ~is_confirmed(tx_status["kick_off_timeout"])
     /\ is_confirmed(tx_status["start_time"])) =>
        IF tx_status["kick_off_1"].block_height
               + connector_1_num_blocks_timelock_leaf_0 <= blockchain_height
        THEN operator_result = "PegOutKickOff2Available"
        ELSE operator_result = "PegOutWait"

\* The projection answered KickOff2Available at exactly h + timelock_leaf_0.
C14_Witness ==
    /\ operator_result = "PegOutKickOff2Available"
    /\ tx_status["kick_off_1"].block_height
           + connector_1_num_blocks_timelock_leaf_0 = blockchain_height

KickOff2Open ==
    /\ OperatorProjected
    /\ GateOpen
    /\ PegOutConfirmed
    /\ is_confirmed(tx_status["kick_off_2"])
    /\ tx_status["kick_off_2"].block_height >= 0
    /\ \A t \in {"take_1", "take_2", "disprove", "disprove_chain"} :
          ~is_confirmed(tx_status[t])

\* C15: with the gate open, peg-out confirmed, kick_off_2 confirmed at height
\* k and no take or disprove transaction confirmed, operator_status is
\* Take1Available if and only if challenge is not confirmed and
\* k + connector_3.timelock <= now.
C15_Take1Available ==
    KickOff2Open =>
        (operator_result = "PegOutTake1Available" <=>
            /\ ~is_confirmed(tx_status["challenge"])
            /\ tx_status["kick_off_2"].block_height
                   + connector_3_num_blocks_timelock <= blockchain_height)

\* Take 1 was offered, and it was withheld before the timelock.
C15_Witness ==
    /\ KickOff2Open
    /\ operator_result = "PegOutTake1Available"
    /\ tx_status["kick_off_2"].block_height
           + connector_3_num_blocks_timelock = blockchain_height

\* C16: with the gate open, peg-out confirmed, kick_off_2 confirmed at height
\* k and no take or disprove transaction confirmed, operator_status is
\* AssertAvailable if and only if challenge is confirmed, assert_final is
\* not confirmed and k + connector_b.timelock_1 <= now.
C16_AssertAvailable ==
    KickOff2Open =>
        (operator_result = "PegOutAssertAvailable" <=>
            /\ is_confirmed(tx_status["challenge"])
            /\ ~is_confirmed(tx_status["assert_final"])
            /\ tx_status["kick_off_2"].block_height
                   + connector_b_num_blocks_timelock_1 <= blockchain_height)

\* The assert was offered after a challenge.
C16_Witness ==
    /\ KickOff2Open
    /\ operator_result = "PegOutAssertAvailable"
    /\ is_confirmed(tx_status["challenge"])

\* C17: terminal precedence: for every status snapshot in which take_1 or
\* take_2 is confirmed, the operator projection (gate open, peg-out
\* confirmed) and the verifier projection (pre-signed) return Complete, and
\* no Available status is returned while any take, disprove or timeout
\* transaction is confirmed.
C17_TerminalPrecedence ==
    LET take == \/ is_confirmed(tx_status["take_1"])
                \/ is_confirmed(tx_status["take_2"])
        terminal == \E t \in {"take_1", "take_2", "disprove", "disprove_chain",
                              "kick_off_timeout", "start_time_timeout"} :
                        is_confirmed(tx_status[t])
    IN /\ (OperatorProjected /\ GateOpen /\ PegOutConfirmed) =>
              /\ take => operator_result = "PegOutComplete"
              /\ terminal => operator_result \notin AvailableStatuses
       /\ \A p \in Participants :
              (Projected(p) /\ graphs[p].n_of_n_presigned) =>
                  /\ take => verifier_result[p] = "PegOutComplete"
                  /\ terminal => verifier_result[p] \notin AvailableStatuses

\* C18: the withdrawer projection returns NotStarted when the graph has no
\* peg_out_transaction, Complete when it is present and its status is
\* confirmed, and Wait when it is present and not confirmed, including when
\* the status query failed.
C18_WithdrawerStatus ==
    withdrawer_result # "none" =>
        withdrawer_result =
            IF ~OperatorGraph.peg_out_transaction THEN "PegOutNotStarted"
            ELSE IF tx_status["peg_out"].ok /\ tx_status["peg_out"].confirmed
            THEN "PegOutComplete"
            ELSE "PegOutWait"

\* The withdrawer projection ran on a graph whose peg-out query failed.
C18_Witness ==
    /\ withdrawer_result = "PegOutWait"
    /\ OperatorGraph.peg_out_transaction
    /\ ~tx_status["peg_out"].ok

\* C19: the three status projections are total: for every combination of
\* status results, graph flags and chain height, each projection returns a
\* status value and never panics.
C19_ProjectionsTotal ==
    /\ operator_result # "panic"
    /\ withdrawer_result # "panic"
    /\ \A p \in Participants : verifier_result[p] # "panic"

(***************************************************************************)
(* Properties of the actions.                                              *)
(***************************************************************************)
\* The broadcast b happened with transaction t confirmed.
BroadcastAfter(b, t) == is_confirmed(b.seen[t])

\* The broadcast b happened with the timelock on t's confirmation elapsed.
BroadcastAfterTimelock(b, t, lock) ==
    /\ b.seen[t].block_height >= 0
    /\ b.seen[t].block_height + lock <= b.at_height

\* C20: in every reachable state, no action has broadcast its transaction
\* while its predecessor was unconfirmed or its timelock unelapsed:
\* peg_out_confirm needs peg_out confirmed; kick_off_1 needs peg_out_confirm;
\* start_time, challenge, kick_off_2, kick_off_timeout and start_time_timeout
\* need kick_off_1; assert_initial, disprove_chain and take_1 need kick_off_2;
\* assert_final needs assert_initial; disprove and take_2 need assert_final;
\* and every timelocked action needs predecessor height + timelock <= now.
C20_BroadcastAfterPredecessor ==
    \A b \in broadcasts :
        LET t == b.body.tx
        IN /\ t = "peg_out_confirm" => BroadcastAfter(b, "peg_out")
           /\ t = "kick_off_1" => BroadcastAfter(b, "peg_out_confirm")
           /\ t \in {"start_time", "challenge", "kick_off_2", "kick_off_timeout",
                     "start_time_timeout"} => BroadcastAfter(b, "kick_off_1")
           /\ t \in {"assert_initial", "disprove_chain", "take_1"} =>
                  BroadcastAfter(b, "kick_off_2")
           /\ t = "assert_final" => BroadcastAfter(b, "assert_initial")
           /\ t \in {"disprove", "take_2"} => BroadcastAfter(b, "assert_final")
           /\ t = "kick_off_2" =>
                  BroadcastAfterTimelock(b, "kick_off_1",
                      connector_1_num_blocks_timelock_leaf_0)
           /\ t = "kick_off_timeout" =>
                  BroadcastAfterTimelock(b, "kick_off_1",
                      connector_1_num_blocks_timelock_leaf_1)
           /\ t = "start_time_timeout" =>
                  BroadcastAfterTimelock(b, "kick_off_1",
                      connector_1_num_blocks_timelock_leaf_2)
           /\ t = "assert_initial" =>
                  BroadcastAfterTimelock(b, "kick_off_2",
                      connector_b_num_blocks_timelock_1)
           /\ t = "take_1" =>
                  BroadcastAfterTimelock(b, "kick_off_2",
                      connector_3_num_blocks_timelock)
           /\ t = "take_2" =>
                  BroadcastAfterTimelock(b, "assert_final",
                      connector_4_num_blocks_timelock)

\* kick_off_2 was broadcast at exactly the height its timelock elapsed, and a
\* block was mined after it.
C20_Witness ==
    /\ is_confirmed(tx_status["kick_off_2"])
    /\ \E b \in broadcasts :
          /\ b.body.tx = "kick_off_2"
          /\ b.seen["kick_off_1"].block_height
                 + connector_1_num_blocks_timelock_leaf_0 = b.at_height

\* C21: in every reachable state, each logged broadcast of kick_off_2 was made
\* while start_time was confirmed, and each logged broadcast of assert_initial
\* was made while challenge was confirmed (the projection rows of
\* KickOff2Available and AssertAvailable).
C21_ActionChecksProjectionRow ==
    \A b \in broadcasts :
        /\ b.body.tx = "kick_off_2" => BroadcastAfter(b, "start_time")
        /\ b.body.tx = "assert_initial" => BroadcastAfter(b, "challenge")

(***************************************************************************)
(* Outcome of one invocation of an action.  No action of lines 1456-1940   *)
(* returns early: verify_if_not_mined returns nothing to its caller, and    *)
(* every path after it ends in broadcast_and_verify or in a panic.          *)
(***************************************************************************)
ActionTxs == StatusTxs

action_proceeds(t, g, st, height) ==
    CASE t = "peg_out" -> peg_out_proceeds(g, st)
      [] t = "peg_out_confirm" -> peg_out_confirm_proceeds(g, st)
      [] t = "kick_off_1" -> kick_off_1_proceeds(g, st)
      [] t = "challenge" -> challenge_proceeds(g, st)
      [] t = "start_time" -> start_time_proceeds(g, st)
      [] t = "start_time_timeout" -> start_time_timeout_proceeds(g, st, height)
      [] t = "kick_off_2" -> kick_off_2_proceeds(g, st, height)
      [] t = "kick_off_timeout" -> kick_off_timeout_proceeds(g, st, height)
      [] t = "assert_initial" -> assert_initial_proceeds(g, st, height)
      [] t = "assert_final" -> assert_final_proceeds(g, st)
      [] t = "disprove" -> disprove_proceeds(g, st)
      [] t = "disprove_chain" -> disprove_chain_proceeds(g, st)
      [] t = "take_1" -> take_1_proceeds(g, st, height)
      [] t = "take_2" -> take_2_proceeds(g, st, height)

action_outcome(t, g, st, height) ==
    IF action_proceeds(t, g, st, height) THEN "broadcast" ELSE "panic"

\* The chain holds t unconfirmed: t is in the mempool.
in_mempool(t) ==
    /\ ~is_confirmed(tx_status[t])
    /\ \E body \in chain_txs : body.tx = t

\* C22: in every reachable state, invoking an action whose own transaction is
\* confirmed does not fail, and invoking an action whose own transaction is
\* confirmed or in the mempool does not broadcast again.
C22_IdempotenceGuard ==
    \A t \in ActionTxs :
        LET outcome == action_outcome(t, graphs[Operator], tx_status,
                                      blockchain_height)
        IN /\ is_confirmed(tx_status[t]) => outcome # "panic"
           /\ (is_confirmed(tx_status[t]) \/ in_mempool(t)) =>
                  outcome # "broadcast"

(***************************************************************************)
(* Winternitz commitments of the operator's actions.  kick_off_1 signs the *)
(* peg-out txid and the event's tx hash (lines 1520-1546), start_time signs *)
(* the start time (lines 1596-1601), kick_off_2 signs the superblock and    *)
(* its hash (lines 1684-1696); each secret is an argument of the action and *)
(* the graph keeps no record of the secrets it has signed with.             *)
(***************************************************************************)
MaxCommitments == 2

CommitmentSecrets(t) ==
    CASE t = "kick_off_1" ->
             {"PegOutTxIdSourceNetwork", "PegOutTxIdDestinationNetwork"}
      [] t = "start_time" -> {"StartTime"}
      [] t = "kick_off_2" -> {"Superblock", "SuperblockHash"}
      [] OTHER -> {}

\* The start time revealed by start_time: the block height at the call.
get_start_time_block_number(height) == height

\* The message signed under the secret id by the broadcast b.  The peg-out
\* txid, the event's hash and the superblock are fixed for one graph.
commitment_message(id, b) ==
    IF id = "StartTime" THEN get_start_time_block_number(b.at_height) ELSE 0

\* An operator-signed action: sign with the secrets handed in, finalize,
\* broadcast.
Commit(p, t, proceeds) ==
    /\ Cardinality(broadcasts) < MaxCommitments
    /\ proceeds
    /\ Broadcast(p, t, graphs[p], finalize_tx(graphs[p], t, signers), NoScript)

CommitKickOff1(p) ==
    Commit(p, "kick_off_1", kick_off_1_proceeds(graphs[p], tx_status))
CommitStartTime(p) ==
    Commit(p, "start_time", start_time_proceeds(graphs[p], tx_status))
CommitKickOff2(p) ==
    Commit(p, "kick_off_2",
           kick_off_2_proceeds(graphs[p], tx_status, blockchain_height))

\* A block is mined that holds none of the waiting transactions.
MineEmpty ==
    /\ blockchain_height < MaxNow
    /\ blockchain_height' = blockchain_height + 1
    /\ UNCHANGED <<presign_vars, tx_status, chain_txs, broadcasts, status_vars>>

NextCommit ==
    \/ \E p \in Participants : CommitKickOff1(p)
    \/ \E p \in Participants : CommitStartTime(p)
    \/ \E p \in Participants : CommitKickOff2(p)
    \/ Mine
    \/ MineEmpty

SpecCommit == InitActions /\ [][NextCommit]_vars

\* C23: in every reachable state, no two logged broadcasts carry signatures
\* under the same Winternitz secret over different messages.
C23_SecretSignsOneMessage ==
    \A b1, b2 \in broadcasts :
        \A id \in CommitmentSecrets(b1.body.tx) \cap CommitmentSecrets(b2.body.tx) :
            commitment_message(id, b1) = commitment_message(id, b2)

InitEvents ==
    /\ signers = VerifierKeys
    /\ pushes = 0
    /\ secret_nonces = [v \in VerifierKeys |-> EmptyMap]
    /\ signed = {}
    /\ merged = {}
    /\ tx_status = NoStatus
    /\ blockchain_height = 0
    /\ chain_txs = {}
    /\ broadcasts = {}
    /\ verifier_result = [p \in {Operator} |-> "none"]
    /\ operator_result = "none"
    /\ withdrawer_result = "none"
    /\ action_report = "none"
    /\ event_result = NoResult
    /\ \E n \in 0..MaxEvents : all_events \in [1..n -> Events]
    /\ chain_event \in {NoEvent} \cup {e \in Events : event_matches(e)}
    /\ stored_graph = NoStored
    /\ validate_result = "none"
    /\ chunker = NoChunker
    /\ graphs = [p \in {Operator} |->
                    [NewGraph EXCEPT !.peg_out_chain_event = chain_event # NoEvent]]

\* The operator calls match_and_set_peg_out_event on the list.
MatchAndSetPegOutEvent(p) ==
    LET r == match_and_set_peg_out_event(chain_event, all_events)
    IN /\ event_result = NoResult
       /\ event_result' = r.result
       /\ chain_event' = r.stored
       /\ all_events' = r.list
       /\ graphs' = [graphs EXCEPT ![p].peg_out_chain_event = r.stored # NoEvent]
       /\ UNCHANGED <<signers, pushes, secret_nonces, signed, merged, chain_vars,
                      verifier_result, operator_result, withdrawer_result,
                      action_report, validate_vars, chunker>>

NextEvents == \E p \in Participants : MatchAndSetPegOutEvent(p)

SpecEvents == InitEvents /\ [][NextEvents]_vars

\* The number of times e occurs in the list.
Occurrences(e, list) == Cardinality({i \in DOMAIN list : list[i] = e})

\* The positions of the list that hold an event of this graph.
MatchingPositions(list) ==
    {i \in DOMAIN list : /\ list[i].txid = peg_in_confirm_txid
                         /\ list[i].operator_public_key = operator_public_key}

MatchCall == event_result = NoResult /\ event_result' # NoResult

\* C25: every call of match_and_set_peg_out_event on a list with no matching
\* event returns Ok(None) and leaves the list and the graph unchanged; every
\* call on a list with exactly one matching event returns Ok(Some(event)),
\* stores that event on the graph, and leaves in the list exactly the
\* non-matching events, each as often as before.
C25_MatchNoneOrOne ==
    [][MatchCall =>
          LET matching == MatchingPositions(all_events)
          IN /\ matching = {} =>
                   /\ event_result' = [kind |-> "Ok(None)", event |-> NoEvent]
                   /\ UNCHANGED <<all_events, graphs, chain_event>>
             /\ Cardinality(matching) = 1 =>
                   LET event == all_events[CHOOSE i \in matching : TRUE]
                   IN /\ event_result' = [kind |-> "Ok(Some)", event |-> event]
                      /\ chain_event' = event
                      /\ graphs'[Operator].peg_out_chain_event
                      /\ \A e \in Events :
                            Occurrences(e, all_events') =
                                IF e \in {all_events[i] : i \in matching} THEN 0
                                ELSE Occurrences(e, all_events)]_vars

\* A call on a list of three events with one match: the event is stored and
\* two events are left.
C25_Witness ==
    /\ event_result.kind = "Ok(Some)"
    /\ chain_event = event_result.event
    /\ Len(all_events) = 2

\* C26: every call of match_and_set_peg_out_event on a list with two or more
\* matching events returns Err("Event from L2 chain is not unique"), does
\* not panic, and leaves the graph's peg_out_chain_event unchanged.
C26_DuplicateMatchIsError ==
    [][(MatchCall /\ Cardinality(MatchingPositions(all_events)) >= 2) =>
          /\ event_result'.kind = "Err(Event from L2 chain is not unique)"
          /\ UNCHANGED <<graphs, chain_event>>]_vars

(***************************************************************************)
(* Validation: the operator builds the graph with new; the operator and a  *)
(* verifier hold copies, push nonces, sign and merge; a copy's stored      *)
(* bodies may come back from a peer with one output amount changed.         *)
(***************************************************************************)
InitValidate ==
    /\ signers = {"K1"}
    /\ graphs = [p \in {"K1", Operator} |-> NewGraph]
    /\ pushes = 0
    /\ secret_nonces = [v \in {"K1"} |-> EmptyMap]
    /\ signed = {}
    /\ merged = {}
    /\ tx_status = NoStatus
    /\ blockchain_height = 0
    /\ chain_txs = {}
    /\ broadcasts = {}
    /\ verifier_result = [p \in {"K1", Operator} |-> "none"]
    /\ operator_result = "none"
    /\ withdrawer_result = "none"
    /\ action_report = "none"
    /\ all_events = << >>
    /\ event_result = NoResult
    /\ chain_event = NoEvent
    /\ validate_result = "none"
    /\ chunker = NoChunker
    /\ \E peg_in_confirm_transaction \in PegInConfirmTransactions,
          peg_out_confirm_input \in FundingInputs :
          stored_graph = [txs |-> new(peg_in_confirm_transaction,
                                      peg_out_confirm_input),
                          changed |-> FALSE]

\* A participant calls validate on its copy.
Validate(p) ==
    /\ validate_result' =
           IF validate(stored_graph.txs, graphs[p].txs) THEN "true" ELSE "false"
    /\ UNCHANGED <<presign_vars, chain_vars, verifier_result, operator_result,
                   withdrawer_result, action_report, event_vars, stored_graph,
                   chunker>>

\* One output amount of one stored transaction is changed to another amount.
ChangeOutputAmount(t, j, amount) ==
    /\ ~stored_graph.changed
    /\ stored_graph.txs[t].tx.output[j] # amount
    /\ stored_graph' =
           [stored_graph EXCEPT !.txs[t].tx.output[j] = amount,
                                !.changed = TRUE]
    /\ validate_result' = "none"
    /\ UNCHANGED <<presign_vars, chain_vars, verifier_result, operator_result,
                   withdrawer_result, action_report, event_vars, chunker>>

NextValidate ==
    \/ \E v \in signers : PushVerifierNonces(v)
    \/ \E v \in signers : VerifierSign(v)
    \/ \E dst \in Participants, src \in Participants : Merge(dst, src)
    \/ \E p \in Participants : Validate(p)
    \/ \E t \in GraphTxs :
          \E j \in DOMAIN stored_graph.txs[t].tx.output :
             \E amount \in ExternalAmounts : ChangeOutputAmount(t, j, amount)

SpecValidate == InitValidate /\ [][NextValidate]_vars

\* C27: in every reachable state in which the stored bodies are those new
\* built, after any pushes, signings and merges, validate is true on every
\* participant's copy, and no call of validate has returned false.
C27_ValidateAcceptsNew ==
    ~stored_graph.changed =>
        /\ \A p \in Participants : validate(stored_graph.txs, graphs[p].txs)
        /\ validate_result # "false"

\* validate returned true on a graph whose verifier has pushed and signed.
C27_Witness ==
    /\ ~stored_graph.changed
    /\ validate_result = "true"
    /\ signed # {}
    /\ \E p \in Participants : graphs[p].n_of_n_presigned

\* C28: in every reachable state in which one output amount of one of the 13
\* stored transactions has been changed, validate is false on every
\* participant's copy, and no call of validate has returned true.
C28_ValidateRejectsChangedAmount ==
    stored_graph.changed =>
        /\ \A p \in Participants : ~validate(stored_graph.txs, graphs[p].txs)
        /\ validate_result # "true"

\* validate returned false after the amount of kick_off_1's output 1 changed.
C28_Witness ==
    /\ stored_graph.changed
    /\ validate_result = "false"
    /\ stored_graph.txs["kick_off_1"].tx.output[2] \in ExternalAmounts

\* The linkage table: for each spender the outputs it spends, producer and
\* vout, in the order of its inputs; the external inputs are left out.
LinkageTable ==
    [t \in GraphTxs |->
        CASE t = "peg_out_confirm" -> << >>
          [] t = "kick_off_1" -> <<<<"peg_out_confirm", 0>>>>
          [] t = "start_time" -> <<<<"kick_off_1", 2>>>>
          [] t = "start_time_timeout" -> <<<<"kick_off_1", 2>>, <<"kick_off_1", 1>>>>
          [] t = "kick_off_2" -> <<<<"kick_off_1", 1>>>>
          [] t = "kick_off_timeout" -> <<<<"kick_off_1", 1>>>>
          [] t = "challenge" -> <<<<"kick_off_1", 0>>>>
          [] t = "assert_initial" -> <<<<"kick_off_2", 1>>>>
          [] t = "assert_final" ->
                 <<<<"assert_initial", 0>>, <<"assert_commit_1", 0>>,
                   <<"assert_commit_2", 0>>>>
          [] t = "disprove" -> <<<<"assert_final", 1>>, <<"assert_final", 2>>>>
          [] t = "disprove_chain" -> <<<<"kick_off_2", 1>>>>
          [] t = "take_1" ->
                 <<<<"peg_in_confirm", 0>>, <<"kick_off_1", 0>>,
                   <<"kick_off_2", 0>>, <<"kick_off_2", 1>>>>
          [] t = "take_2" ->
                 <<<<"peg_in_confirm", 0>>, <<"assert_final", 0>>,
                   <<"assert_final", 1>>, <<"assert_final", 2>>>>]

\* The inputs of the transactions of txs, peg_out_confirm's funding input
\* aside, are those of the linkage table, with the amounts of the producers'
\* outputs; built holds the transactions new built and peg_in_confirm is the
\* peg-in confirm transaction.
LinkedAsTable(txs, built, peg_in_confirm) ==
    \A t \in GraphTxs \ {"peg_out_confirm"} :
        /\ Len(txs[t].tx.input) = Len(LinkageTable[t])
        /\ \A i \in DOMAIN LinkageTable[t] :
              LET producer == IF LinkageTable[t][i][1] = "peg_in_confirm"
                              THEN peg_in_confirm
                              ELSE built[LinkageTable[t][i][1]]
                  vout == LinkageTable[t][i][2]
              IN /\ txs[t].tx.input[i] =
                        [txid |-> compute_txid(producer.tx), vout |-> vout]
                 /\ txs[t].prev_outs[i] = producer.tx.output[vout + 1]

\* C29: in every reachable state that holds the graph as new built it, each
\* transaction's inputs are exactly the (producer, vout) pairs of the linkage
\* table, and each input amount is the producer's output[vout].value.
C29_InputsFollowLinkage ==
    ~stored_graph.changed =>
        \E peg_in_confirm_transaction \in PegInConfirmTransactions,
           peg_out_confirm_input \in FundingInputs :
           /\ stored_graph.txs = new(peg_in_confirm_transaction,
                                     peg_out_confirm_input)
           /\ LinkedAsTable(stored_graph.txs,
                            new_all(peg_in_confirm_transaction,
                                    peg_out_confirm_input),
                            peg_in_confirm_transaction)

\* The graph as built: take_1 has four inputs, the last of them kick_off_2[1],
\* and take_2's last input is assert_final[2].
C29_Witness ==
    /\ ~stored_graph.changed
    /\ Len(stored_graph.txs["take_1"].tx.input) = 4
    /\ stored_graph.txs["take_1"].tx.input[4].vout = 1
    /\ stored_graph.txs["take_2"].tx.input[4].vout = 2

(***************************************************************************)
(* Happy path: the operator's graph is pre-signed and initiated, nothing   *)
(* past start_time is on the chain, and no verifier acts.  The operator     *)
(* reads its status and executes the action the status names; the chain     *)
(* confirms what was broadcast.                                             *)
(***************************************************************************)
MaxHappyHeight == 9

HappyPathTxs == {"peg_out", "peg_out_confirm", "kick_off_1", "start_time"}

InitHappyPath ==
    /\ InitActions
    /\ \A t \in StatusTxs : is_confirmed(tx_status[t]) => t \in HappyPathTxs
    \* the chain reports the block of a confirmed transaction
    /\ is_confirmed(tx_status["kick_off_1"]) =>
           tx_status["kick_off_1"].block_height >= 0

\* The operator calls operator_status.
HappyStatus ==
    /\ operator_result' =
           operator_status(graphs[Operator], tx_status, blockchain_height)
    /\ UNCHANGED <<presign_vars, chain_vars, verifier_result, withdrawer_result,
                   call_vars>>

\* The operator executes the action its last status names.
Execute(status, t, proceeds) ==
    /\ operator_result = status
    /\ proceeds
    /\ Broadcast(Operator, t, graphs[Operator],
                 finalize_tx(graphs[Operator], t, signers), NoScript)

HappyPegOut ==
    /\ operator_result = "PegOutStartPegOut"
    /\ peg_out_proceeds(graphs[Operator], tx_status)
    /\ Broadcast(Operator, "peg_out", peg_out_complete(graphs[Operator]),
                 [tx |-> "peg_out", added_outputs |-> << >>,
                  witness_valid |-> TRUE], NoScript)
HappyPegOutConfirm ==
    Execute("PegOutPegOutConfirmAvailable", "peg_out_confirm",
            peg_out_confirm_proceeds(graphs[Operator], tx_status))
HappyKickOff1 ==
    Execute("PegOutKickOff1Available", "kick_off_1",
            kick_off_1_proceeds(graphs[Operator], tx_status))
HappyStartTime ==
    Execute("PegOutStartTimeAvailable", "start_time",
            start_time_proceeds(graphs[Operator], tx_status))
HappyKickOff2 ==
    Execute("PegOutKickOff2Available", "kick_off_2",
            kick_off_2_proceeds(graphs[Operator], tx_status, blockchain_height))
HappyTake1 ==
    Execute("PegOutTake1Available", "take_1",
            take_1_proceeds(graphs[Operator], tx_status, blockchain_height))

\* The chain holds a transaction it has not confirmed yet.
Pending == \E b \in chain_txs : ~is_confirmed(tx_status[b.tx])

\* The next block: it confirms the waiting transactions.  Blocks are counted
\* while something waits for them, a transaction or the operator's timelock.
HappyMine ==
    /\ blockchain_height < MaxHappyHeight
    /\ \/ Pending
       \/ operator_status(graphs[Operator], tx_status, blockchain_height)
              = "PegOutWait"
    /\ blockchain_height' = blockchain_height + 1
    /\ tx_status' =
           [t \in StatusTxs |->
               IF ~is_confirmed(tx_status[t]) /\ \E b \in chain_txs : b.tx = t
               THEN Confirmed(blockchain_height + 1)
               ELSE tx_status[t]]
    /\ UNCHANGED <<presign_vars, chain_txs, broadcasts, status_vars>>

NextHappyPath ==
    \/ HappyStatus
    \/ HappyPegOut
    \/ HappyPegOutConfirm
    \/ HappyKickOff1
    \/ HappyStartTime
    \/ HappyKickOff2
    \/ HappyTake1
    \/ HappyMine

SpecHappyPath ==
    /\ InitHappyPath
    /\ [][NextHappyPath]_vars
    /\ WF_vars(HappyStatus)
    /\ WF_vars(HappyPegOut)
    /\ WF_vars(HappyPegOutConfirm)
    /\ WF_vars(HappyKickOff1)
    /\ WF_vars(HappyStartTime)
    /\ WF_vars(HappyKickOff2)
    /\ WF_vars(HappyTake1)
    /\ WF_vars(HappyMine)

\* C30: on the happy path the operator's status is eventually
\* KickOff2Available, eventually Take1Available, and from some point on
\* Complete.
C30_HappyPathCompletes ==
    /\ <>(operator_result = "PegOutKickOff2Available")
    /\ <>(operator_result = "PegOutTake1Available")
    /\ <>[](operator_result = "PegOutComplete")

\* The operator reads Complete with take_1 confirmed after its own broadcast.
C30_Witness ==
    /\ operator_result = "PegOutComplete"
    /\ is_confirmed(tx_status["take_1"])
    /\ \E b \in broadcasts : b.body.tx = "take_1" /\ b.accepted

(***************************************************************************)
(* Participants over one chain.  Every participant holds its own copy of   *)
(* the graph and asks the chain for the status of the txid it computes     *)
(* from its copy.  The txid covers the outputs of a transaction (not its   *)
(* witness), so an output an action adds to a stored transaction changes   *)
(* the txid that copy computes.                                            *)
(***************************************************************************)
MaxChainHeight == 7

\* tx().compute_txid() of the stored transaction t of graph copy g.
stored_txid(g, t) ==
    <<t, IF t \in GraphTxs THEN g.txs[t].added_outputs ELSE << >> >>

\* compute_txid of a transaction handed to broadcast_and_verify.
broadcast_txid(body) == <<body.tx, body.added_outputs>>

\* client.get_tx_status(txid): the status of the transaction with that txid,
\* unconfirmed when the chain holds none.
get_tx_status(txid) ==
    IF \E b \in chain_txs : broadcast_txid(b) = txid
    THEN tx_status[txid[1]]
    ELSE Unconfirmed

\* get_peg_out_statuses (lines 1972-2075): one query per stored transaction.
get_peg_out_statuses(g) ==
    [t \in StatusTxs |-> get_tx_status(stored_txid(g, t))]

\* The participants: the operator and one verifier.
ChainParticipants == {Operator, "K1"}

\* The actions that add an output to the stored transaction.
OutputTxs ==
    {"challenge", "start_time_timeout", "kick_off_timeout", "disprove",
     "disprove_chain"}

\* The graph copy an action leaves behind.
action_complete(t, g, output_script_pubkey) ==
    CASE t = "peg_out" -> peg_out_complete(g)
      [] t = "challenge" -> challenge_complete(g, output_script_pubkey)
      [] t = "start_time_timeout" ->
             start_time_timeout_complete(g, output_script_pubkey)
      [] t = "kick_off_timeout" ->
             kick_off_timeout_complete(g, output_script_pubkey)
      [] t = "disprove" -> disprove_complete(g, output_script_pubkey)
      [] t = "disprove_chain" -> disprove_chain_complete(g, output_script_pubkey)
      [] OTHER -> g

\* The transaction an action hands to broadcast_and_verify; kick_off_timeout
\* finalizes before it adds the output (lines 1738-1742).
action_body(t, g, output_script_pubkey) ==
    CASE t = "peg_out" ->
             [tx |-> "peg_out", added_outputs |-> << >>, witness_valid |-> TRUE]
      [] t = "kick_off_timeout" -> finalize_tx(g, t, signers)
      [] OTHER ->
             finalize_tx(action_complete(t, g, output_script_pubkey), t, signers)

\* The chain before any action: the first transactions of the peg-out are
\* confirmed in block 0, as every copy stores them.
ChainPrefix == <<"peg_out", "peg_out_confirm", "kick_off_1">>

InitChain ==
    /\ signers = VerifierKeys
    /\ pushes = Cardinality(VerifierKeys)
    /\ secret_nonces = [v \in VerifierKeys |-> EmptyMap]
    /\ signed = VerifierKeys
    /\ merged = {}
    /\ broadcasts = {}
    /\ verifier_result = [p \in ChainParticipants |-> "none"]
    /\ operator_result = "none"
    /\ withdrawer_result = "none"
    /\ action_report = "none"
    /\ all_events = << >>
    /\ event_result = NoResult
    /\ chain_event = NoEvent
    /\ stored_graph = NoStored
    /\ validate_result = "none"
    /\ chunker = NoChunker
    /\ blockchain_height = 0
    /\ \E n \in 0..Len(ChainPrefix) :
          LET mined == {ChainPrefix[i] : i \in 1..n}
              g == [PresignedGraph EXCEPT !.peg_out_transaction = (n > 0)]
          IN /\ graphs = [p \in ChainParticipants |-> g]
             /\ tx_status = [t \in StatusTxs |->
                                IF t \in mined THEN Confirmed(0) ELSE Unconfirmed]
             /\ chain_txs = {action_body(t, g, NoScript) : t \in mined}

\* Participant p calls the action of transaction t on its copy: the checks
\* on the statuses its copy sees, completion, finalize, broadcast.
ChainAct(p, t) ==
    LET g == graphs[p]
        body == action_body(t, g, RewardScript(p))
    IN /\ action_proceeds(t, g, get_peg_out_statuses(g), blockchain_height)
       /\ t \in OutputTxs => CanAddOutput(p, t)
       /\ graphs' = [graphs EXCEPT ![p] = action_complete(t, g, RewardScript(p))]
       /\ chain_txs' = IF chain_accepts(body, tx_status, chain_txs)
                       THEN chain_txs \cup {body}
                       ELSE chain_txs
       /\ UNCHANGED <<signers, pushes, secret_nonces, signed, merged, broadcasts,
                      tx_status, blockchain_height, status_vars>>

\* disprove when generate_disprove_witness yields no witness.
ChainDisproveNoWitness(p) ==
    /\ disprove_proceeds(graphs[p], get_peg_out_statuses(graphs[p]))
    /\ graphs' = [graphs EXCEPT ![p] =
                      disprove_without_witness(@, RewardScript(p))]
    /\ action_report' = "cannot_disprove"
    /\ UNCHANGED <<signers, pushes, secret_nonces, signed, merged,
                   chain_vars, verifier_result, operator_result,
                   withdrawer_result, event_vars, validate_vars, chunker>>

\* The longest timelock of the graph, in blocks.
LongestTimelock == connector_1_num_blocks_timelock_leaf_1

\* The height of the last block that confirmed a transaction.
LastConfirmation ==
    LET hs == {tx_status[t].block_height : t \in StatusTxs}
    IN CHOOSE h \in hs : \A k \in hs : k <= h

\* The next block confirms what the chain accepted.  Empty blocks are counted
\* until the longest timelock has run out after the last confirmation: a
\* further empty block changes no timelock comparison.
ChainMine ==
    /\ blockchain_height < MaxChainHeight
    /\ \/ \E b \in chain_txs : ~is_confirmed(tx_status[b.tx])
       \/ blockchain_height < LastConfirmation + LongestTimelock
    /\ blockchain_height' = blockchain_height + 1
    /\ tx_status' =
           [t \in StatusTxs |->
               IF ~is_confirmed(tx_status[t]) /\ \E b \in chain_txs : b.tx = t
               THEN Confirmed(blockchain_height + 1)
               ELSE tx_status[t]]
    /\ UNCHANGED <<presign_vars, chain_txs, broadcasts, status_vars>>

\* The operator's actions need the operator's keys; the verifier answers
\* with the actions that need none.
NextChain ==
    \/ ChainAct(Operator, "peg_out")
    \/ ChainAct(Operator, "peg_out_confirm")
    \/ ChainAct(Operator, "kick_off_1")
    \/ ChainAct(Operator, "start_time")
    \/ ChainAct(Operator, "kick_off_2")
    \/ ChainAct(Operator, "assert_initial")
    \/ ChainAct(Operator, "assert_final")
    \/ ChainAct(Operator, "take_1")
    \/ ChainAct(Operator, "take_2")
    \/ \E p \in ChainParticipants \ {Operator} : ChainAct(p, "challenge")
    \/ \E p \in ChainParticipants \ {Operator} : ChainAct(p, "start_time_timeout")
    \/ \E p \in ChainParticipants \ {Operator} : ChainAct(p, "kick_off_timeout")
    \/ \E p \in ChainParticipants \ {Operator} : ChainAct(p, "disprove")
    \/ \E p \in ChainParticipants \ {Operator} : ChainDisproveNoWitness(p)
    \/ \E p \in ChainParticipants \ {Operator} : ChainAct(p, "disprove_chain")
    \/ ChainMine

SpecChain == InitChain /\ [][NextChain]_vars

\* What copy p's verifier and operator projections return in this state.
VerifierView(p) ==
    verifier_status(graphs[p], get_peg_out_statuses(graphs[p]), blockchain_height)
OperatorView(p) ==
    operator_status(graphs[p], get_peg_out_statuses(graphs[p]), blockchain_height)

\* The chain confirmed a transaction t that participant p broadcast: the
\* confirmed transaction pays p's script.
ConfirmedFrom(p, t) ==
    /\ is_confirmed(tx_status[t])
    /\ \E b \in chain_txs : b.tx = t /\ b.added_outputs = <<RewardScript(p)>>

\* The chain confirmed kick_off_2, a challenge and the assert chain, and none
\* of the transactions that end the peg-out.
AssertChainConfirmed ==
    /\ \A t \in {"kick_off_2", "challenge", "assert_initial", "assert_final"} :
          is_confirmed(tx_status[t])
    /\ \A t \in {"take_1", "take_2", "disprove", "disprove_chain"} :
          ~is_confirmed(tx_status[t])

\* C31: once kick_off_2, challenge and the assert chain are confirmed the
\* verifier's status is DisproveAvailable; once the disprove a verifier
\* broadcast is confirmed, that verifier's status is Failed and the operator's
\* status is Failed.
C31_ChallengeThenDisprove ==
    \A p \in ChainParticipants \ {Operator} :
        /\ AssertChainConfirmed => VerifierView(p) = "PegOutDisproveAvailable"
        /\ ConfirmedFrom(p, "disprove") =>
              /\ VerifierView(p) = "PegOutFailed"
              /\ OperatorView(Operator) = "PegOutFailed"

Terminal == {"PegOutComplete", "PegOutFailed"}

\* The statuses copy g gets when the queries of the transactions in failed
\* return an error.
get_peg_out_statuses_failing(g, failed) ==
    [t \in StatusTxs |->
        IF t \in failed THEN QueryError ELSE get_peg_out_statuses(g)[t]]

C33_PegInReleasedOnce ==
    /\ ~(is_confirmed(tx_status["take_1"]) /\ is_confirmed(tx_status["take_2"]))
    /\ \A take \in {"take_1", "take_2"}, d \in {"disprove", "disprove_chain"} :
          ~(is_confirmed(tx_status[take]) /\ is_confirmed(tx_status[d]))

\* take_2 is confirmed, and the verifier had called disprove on its copy.
C33_Witness ==
    /\ is_confirmed(tx_status["take_2"])
    /\ graphs["K1"].txs["disprove"].added_outputs # << >>

\* C34: whenever the verifier projection of a copy returns
\* StartTimeTimeoutAvailable (KickOffTimeoutAvailable), the timelock test of
\* the start_time_timeout (kick_off_timeout) action passes on the same
\* statuses and height.
C34_TimeoutAvailableThenActionPasses ==
    \A p \in ChainParticipants :
        LET st == get_peg_out_statuses(graphs[p])
        IN /\ VerifierView(p) = "PegOutStartTimeTimeoutAvailable" =>
                 timelock_elapsed(st["kick_off_1"],
                                  connector_1_num_blocks_timelock_leaf_2,
                                  blockchain_height)
           /\ VerifierView(p) = "PegOutKickOffTimeoutAvailable" =>
                 timelock_elapsed(st["kick_off_1"],
                                  connector_1_num_blocks_timelock_leaf_1,
                                  blockchain_height)

\* No confirmed transaction spends kick_off_2[1].
ConnectorBUnspent ==
    \A t \in ConnectorBSpenders : ~is_confirmed(tx_status[t])

\* C35: whenever the operator projection returns Take1Available or a verifier
\* projection returns DisproveChainAvailable, kick_off_2[1] is unspent on the
\* chain.
C35_AvailableThenConnectorBUnspent ==
    /\ OperatorView(Operator) = "PegOutTake1Available" => ConnectorBUnspent
    /\ \A p \in ChainParticipants \ {Operator} :
          VerifierView(p) = "PegOutDisproveChainAvailable" => ConnectorBUnspent

\* C36: a confirmed disprove, disprove_chain, kick_off_timeout,
\* start_time_timeout or challenge has the txid every participant's copy
\* queries for it, so every copy sees it confirmed.
C36_ConfirmedSeenByEveryCopy ==
    \A b \in chain_txs :
        (b.tx \in OutputTxs /\ is_confirmed(tx_status[b.tx])) =>
            \A p \in ChainParticipants :
                /\ stored_txid(graphs[p], b.tx) = broadcast_txid(b)
                /\ is_confirmed(get_peg_out_statuses(graphs[p])[b.tx])

\* C37: the transaction kick_off_timeout broadcasts, like the one
\* start_time_timeout broadcasts, holds the output paying the script the
\* caller supplied.
C37_TimeoutBroadcastPaysCaller ==
    \A b \in broadcasts :
        b.body.tx \in {"kick_off_timeout", "start_time_timeout"} =>
            b.script \in Range(b.body.added_outputs)

(***************************************************************************)
(* Reception: a participant holds a graph a peer serialized, the 13         *)
(* transactions and the peg_in_confirm_txid field among its fields, and     *)
(* calls validate on it.  The peer chose the outpoint kick_off_1 spends,    *)
(* the peg-in confirm transaction take_1 and take_2 spend and the value of  *)
(* the field, and built the other bodies from them.                         *)
(***************************************************************************)
\* The 13 transactions of a graph whose kick_off_1 spends output 0 of the
\* peg_out_confirm funded by kick_off_1_funding, every other body as the
\* constructors build it.
serialized_txs(peg_in_confirm_transaction, peg_out_confirm_input, kick_off_1_funding) ==
    LET spent == InputOf(build("peg_out_confirm", <<kick_off_1_funding>>), 0)
    IN new_for_validation(
           [new(peg_in_confirm_transaction, peg_out_confirm_input)
               EXCEPT !["kick_off_1"].tx.input[1] = spent.outpoint,
                      !["kick_off_1"].prev_outs[1] = spent.amount])

PegInConfirmTxids == {compute_txid(p.tx) : p \in PegInConfirmTransactions}

InitReceive ==
    /\ signers = {"K1"}
    /\ graphs = [p \in {"K1", Operator} |-> NewGraph]
    /\ pushes = 0
    /\ secret_nonces = [v \in {"K1"} |-> EmptyMap]
    /\ signed = {}
    /\ merged = {}
    /\ tx_status = NoStatus
    /\ blockchain_height = 0
    /\ chain_txs = {}
    /\ broadcasts = {}
    /\ verifier_result = [p \in {"K1", Operator} |-> "none"]
    /\ operator_result = "none"
    /\ withdrawer_result = "none"
    /\ action_report = "none"
    /\ all_events = << >>
    /\ event_result = NoResult
    /\ chain_event = NoEvent
    /\ validate_result = "none"
    /\ chunker = NoChunker
    /\ \E peg_in_confirm_transaction \in PegInConfirmTransactions,
          peg_out_confirm_input \in FundingInputs :
          stored_graph =
              [txs |-> new(peg_in_confirm_transaction, peg_out_confirm_input),
               changed |-> FALSE,
               peg_in_confirm_txid |->
                   compute_txid(peg_in_confirm_transaction.tx)]

\* The copy is replaced by a graph a peer serialized.
Receive(peg_in_confirm_transaction, peg_out_confirm_input, kick_off_1_funding, txid) ==
    /\ stored_graph' =
           [txs |-> serialized_txs(peg_in_confirm_transaction,
                                   peg_out_confirm_input, kick_off_1_funding),
            changed |-> FALSE,
            peg_in_confirm_txid |-> txid]
    /\ validate_result' = "none"
    /\ UNCHANGED <<presign_vars, chain_vars, verifier_result, operator_result,
                   withdrawer_result, action_report, event_vars, chunker>>

NextReceive ==
    \/ \E peg_in_confirm_transaction \in PegInConfirmTransactions,
          peg_out_confirm_input \in FundingInputs,
          kick_off_1_funding \in FundingInputs,
          txid \in PegInConfirmTxids :
          Receive(peg_in_confirm_transaction, peg_out_confirm_input,
                  kick_off_1_funding, txid)
    \/ \E t \in GraphTxs :
          \E j \in DOMAIN stored_graph.txs[t].tx.output :
             \E amount \in ExternalAmounts : ChangeOutputAmount(t, j, amount)
    \/ \E p \in Participants : Validate(p)

SpecReceive == InitReceive /\ [][NextReceive]_vars

\* Every input the linkage table names spends the named output of the
\* graph's own producer: of the stored transaction of that name, of the
\* transaction the peg_in_confirm_txid field names, or of an assert commit
\* transaction, which the graph does not store.
ChainedAsTable(g) ==
    \A t \in GraphTxs \ {"peg_out_confirm"} :
        /\ Len(g.txs[t].tx.input) = Len(LinkageTable[t])
        /\ \A i \in DOMAIN LinkageTable[t] :
              LET producer == LinkageTable[t][i][1]
                  vout == LinkageTable[t][i][2]
                  outpoint == g.txs[t].tx.input[i]
              IN /\ outpoint.vout = vout
                 /\ CASE producer = "peg_in_confirm" ->
                             outpoint.txid = g.peg_in_confirm_txid
                      [] producer \in GraphTxs ->
                             outpoint.txid = compute_txid(g.txs[producer].tx)
                      [] OTHER -> outpoint.txid.name = producer

\* C38: whenever validate has returned true on the stored graph, its
\* transactions are chained as the linkage table requires at every edge,
\* kick_off_1 spending output 0 of the graph's own peg_out_confirm and take_1
\* and take_2 spending output 0 of the transaction the peg_in_confirm_txid
\* field names.
C38_ValidatedGraphIsChained ==
    validate_result = "true" => ChainedAsTable(stored_graph)

(***************************************************************************)
(* The peg-out fields: the operator's graph starts as new built it, polls   *)
(* the destination chain for events and calls peg_out with an input of its  *)
(* choice; the chain confirms what was broadcast.  stored_graph.peg_out     *)
(* holds the body of the graph's peg_out_transaction.                       *)
(***************************************************************************)
\* largest number of events one poll of the destination chain returns
MaxPolled == 2

NoPegOut == [event |-> NoEvent, input |-> "none"]

\* PegOutTransaction::new(context, event, input)
PegOutTransaction_new(event, input) == [event |-> event, input |-> input]

\* A peg_out that builds the transaction on every call.
peg_out_transaction_rebuilt(existing, event, input) ==
    PegOutTransaction_new(event, input)

\* is_peg_out_initiated (line 1942)
is_peg_out_initiated(g) == g.peg_out_chain_event

\* lines 1461-1473: the peg_out_transaction the graph holds after the branch.
peg_out_transaction_after(existing, event, input) ==
    IF existing # NoPegOut
    THEN existing
    ELSE PegOutTransaction_new(event, input)

InitPegOut ==
    /\ signers = VerifierKeys
    /\ pushes = 0
    /\ secret_nonces = [v \in VerifierKeys |-> EmptyMap]
    /\ signed = {}
    /\ merged = {}
    /\ tx_status = NoStatus
    /\ blockchain_height = 0
    /\ chain_txs = {}
    /\ broadcasts = {}
    /\ verifier_result = [p \in {Operator} |-> "none"]
    /\ operator_result = "none"
    /\ withdrawer_result = "none"
    /\ action_report = "none"
    /\ event_result = NoResult
    /\ all_events = << >>
    /\ chain_event = NoEvent
    /\ stored_graph = [txs |-> << >>, changed |-> FALSE, peg_out |-> NoPegOut]
    /\ validate_result = "none"
    /\ chunker = NoChunker
    /\ graphs = [p \in {Operator} |-> NewGraph]

\* The operator fetches the events of the destination chain and calls
\* match_and_set_peg_out_event on them.
PollPegOutEvent(p, events) ==
    LET r == match_and_set_peg_out_event(chain_event, events)
    IN /\ event_result' = r.result
       /\ chain_event' = r.stored
       /\ all_events' = r.list
       /\ graphs' = [graphs EXCEPT ![p].peg_out_chain_event = r.stored # NoEvent]
       /\ UNCHANGED <<signers, pushes, secret_nonces, signed, merged, chain_vars,
                      verifier_result, operator_result, withdrawer_result,
                      action_report, validate_vars, chunker>>

\* peg_out(client, context, input) (lines 1456-1478): panic when the peg-out
\* is not initiated; verify_if_not_mined on the transaction held, or the
\* transaction built from the event and the input; finalize and broadcast.
\* The log keeps the input of the call with the body broadcast.
PegOutWithInput(p, input) ==
    IF ~is_peg_out_initiated(graphs[p])
    THEN /\ action_report' = "panic: Peg out not initiated on L2 chain"
         /\ UNCHANGED <<presign_vars, chain_vars, verifier_result,
                        operator_result, withdrawer_result, event_vars,
                        validate_vars, chunker>>
    ELSE LET tx == peg_out_transaction_after(stored_graph.peg_out, chain_event,
                                             input)
             body == [tx |-> "peg_out", added_outputs |-> << >>,
                      witness_valid |-> TRUE, built |-> tx]
         IN /\ peg_out_proceeds(graphs[p], tx_status)
            /\ graphs' = [graphs EXCEPT ![p] = peg_out_complete(@)]
            /\ stored_graph' = [stored_graph EXCEPT !.peg_out = tx]
            /\ chain_txs' = IF chain_accepts(body, tx_status, chain_txs)
                            THEN chain_txs \cup {body}
                            ELSE chain_txs
            /\ broadcasts' = broadcasts \cup
                   {[by |-> p, body |-> body, script |-> NoScript,
                     input |-> input, at_height |-> blockchain_height]}
            /\ action_report' = "none"
            /\ UNCHANGED <<signers, pushes, secret_nonces, signed, merged,
                           tx_status, blockchain_height,
                           verifier_result, operator_result, withdrawer_result,
                           event_vars, validate_result, chunker>>

NextPegOut ==
    \/ \E p \in Participants :
          \E n \in 0..MaxPolled :
             \E events \in [1..n -> Events] : PollPegOutEvent(p, events)
    \/ \E p \in Participants :
          \E input \in FundingInputs : PegOutWithInput(p, input)
    \/ Mine

SpecPegOut == InitPegOut /\ [][NextPegOut]_vars

\* The graph's two optional fields.
PegOutFields ==
    [event |-> graphs[Operator].peg_out_chain_event,
     transaction |-> graphs[Operator].peg_out_transaction,
     body |-> stored_graph.peg_out]

\* C39: in every state reachable through the graph's methods
\* peg_out_transaction is present only if peg_out_chain_event is present; no
\* step returns either to absent once it is set; and a step taken while
\* peg_out_transaction is present leaves it the transaction it was, so that
\* every peg_out body broadcast is that of the one transaction the graph
\* holds.
C39_PegOutFieldsOnlyGrow ==
    /\ [](/\ PegOutFields.transaction => PegOutFields.event
          /\ PegOutFields.transaction <=> PegOutFields.body # NoPegOut
          /\ \A b \in broadcasts : b.body.built = PegOutFields.body)
    /\ [][/\ PegOutFields.event => PegOutFields'.event
          /\ PegOutFields.transaction =>
                /\ PegOutFields'.transaction
                /\ PegOutFields'.body = PegOutFields.body]_vars

\* peg_out was called a second time, with another input than the one the
\* transaction it holds was built from, after a poll had replaced the event.
C39_Witness ==
    /\ PegOutFields.transaction
    /\ \E b \in broadcasts :
          /\ b.body.built = PegOutFields.body
          /\ b.input # PegOutFields.body.input
    /\ PegOutFields.body.event # chain_event

(***************************************************************************)
(* Chunker elements (src/chunker/elements.rs): an element of one of the     *)
(* seven types is created empty, filled with data and read.                 *)
(***************************************************************************)
\* largest coefficient of the field values filled in
MaxFq == 1

\* Option<T>
None == [some |-> FALSE]
Some(x) == [some |-> TRUE, value |-> x]

\* impl_element_trait! (lines 154-167): the DataType variant and the size of
\* each element type.
ElementTypes ==
    [element_type \in {"FqType", "FrType", "Fq2Type", "Fq6Type", "Fq12Type",
                       "G1PointType", "G2PointType"} |->
        CASE element_type = "FqType" -> [data_type |-> "FqData", size |-> 1]
          [] element_type = "FrType" -> [data_type |-> "FrData", size |-> 1]
          [] element_type = "Fq2Type" -> [data_type |-> "Fq2Data", size |-> 2]
          [] element_type = "Fq6Type" -> [data_type |-> "Fq6Data", size |-> 6]
          [] element_type = "Fq12Type" -> [data_type |-> "Fq12Data", size |-> 12]
          [] element_type = "G1PointType" ->
                 [data_type |-> "G1PointData", size |-> 2]
          [] element_type = "G2PointType" ->
                 [data_type |-> "G2PointData", size |-> 4]]

\* The number of 254-bit values a value of each DataType variant holds.
CoefficientCount ==
    [variant \in {ElementTypes[t].data_type : t \in DOMAIN ElementTypes} |->
        LET t == CHOOSE t \in DOMAIN ElementTypes :
                     ElementTypes[t].data_type = variant
        IN ElementTypes[t].size]

\* DataType (lines 30-38): a variant and its value, the coefficients all equal.
DataTypes ==
    {[variant |-> variant,
      value |-> [i \in 1..CoefficientCount[variant] |-> c]] :
        variant \in DOMAIN CoefficientCount, c \in 0..MaxFq}

\* $element_type::new (lines 68-78)
new_element(element_type, id) ==
    [element_type |-> element_type,
     identity |-> id,
     size |-> ElementTypes[element_type].size,
     witness_data |-> None,
     data |-> None]

\* FqElement::witness_size (lines 23-25)
witness_size(e) == e.size * 9

\* execute_script(script! { $push_method(data) }) and
\* extract_witness_from_stack: every coefficient is pushed as 9 limbs, the
\* least significant last.
push_witness(x) ==
    [k \in 1..(Len(x.value) * 9) |->
        IF k % 9 = 0 THEN x.value[k \div 9] ELSE 0]

\* A fill_with_data that stores whatever it is given.
fill_with_data_of_any_variant(e, x) ==
    [panic |-> FALSE,
     element |-> [e EXCEPT !.witness_data = Some(push_witness(x)),
                           !.data = Some(x)]]

\* fill_with_data (lines 83-97): the element afterwards, and whether the call
\* panicked.
fill_with_data(e, x) ==
    IF x.variant = ElementTypes[e.element_type].data_type
    THEN LET witness == push_witness(x)
         IN IF Len(witness) # witness_size(e)
            THEN [panic |-> TRUE, element |-> e]
            ELSE [panic |-> FALSE,
                  element |-> [e EXCEPT !.witness_data = Some(witness),
                                        !.data = Some(x)]]
    ELSE [panic |-> TRUE, element |-> e]

\* blake3_var_length(witness_size) run on the witness: the witness of the
\* hash.
blake3_var_length(size, witness) == <<"blake3", size, witness>>

witness_to_array(witness) == [array |-> witness]

\* to_witness (lines 99-101)
to_witness(e) == e.witness_data

\* to_data (lines 103-105)
to_data(e) == e.data

\* to_hash (lines 107-121)
to_hash(e) ==
    IF e.witness_data = None THEN None
    ELSE Some(witness_to_array(
                  blake3_var_length(witness_size(e), e.witness_data.value)))

\* to_hash_witness (lines 123-137)
to_hash_witness(e) ==
    IF e.witness_data = None THEN None
    ELSE Some(blake3_var_length(witness_size(e), e.witness_data.value))

\* The four projections of an element.
Projections(e) ==
    [to_witness |-> to_witness(e), to_data |-> to_data(e),
     to_hash |-> to_hash(e), to_hash_witness |-> to_hash_witness(e)]

ElementId == "id"

InitElement ==
    /\ signers = VerifierKeys
    /\ graphs = [p \in {Operator} |-> NewGraph]
    /\ pushes = 0
    /\ secret_nonces = [v \in VerifierKeys |-> EmptyMap]
    /\ signed = {}
    /\ merged = {}
    /\ tx_status = NoStatus
    /\ blockchain_height = 0
    /\ chain_txs = {}
    /\ broadcasts = {}
    /\ verifier_result = [p \in {Operator} |-> "none"]
    /\ operator_result = "none"
    /\ withdrawer_result = "none"
    /\ action_report = "none"
    /\ all_events = << >>
    /\ event_result = NoResult
    /\ chain_event = NoEvent
    /\ stored_graph = NoStored
    /\ validate_result = "none"
    /\ \E element_type \in DOMAIN ElementTypes :
          chunker = [elements |-> [id \in {ElementId} |->
                                      new_element(element_type, id)],
                     last |-> [op |-> "new"]]

\* fill_with_data(x) is called on the element id.
FillWithData(id, x) ==
    LET r == fill_with_data(chunker.elements[id], x)
    IN /\ chunker' = [elements |-> [chunker.elements EXCEPT ![id] = r.element],
                      last |-> [op |-> "fill_with_data", id |-> id, x |-> x,
                                panic |-> r.panic]]
       /\ action_report' = IF r.panic THEN "panic: fill wrong data" ELSE "none"
       /\ UNCHANGED <<presign_vars, chain_vars, verifier_result,
                      operator_result, withdrawer_result, event_vars,
                      validate_vars>>

\* to_witness, to_data, to_hash and to_hash_witness are called on the
\* element id.
ReadElement(id) ==
    /\ chunker' = [chunker EXCEPT !.last =
                       [op |-> "read", id |-> id,
                        result |-> Projections(chunker.elements[id])]]
    /\ action_report' = "none"
    /\ UNCHANGED <<presign_vars, chain_vars, verifier_result, operator_result,
                   withdrawer_result, event_vars, validate_vars>>

NextElement ==
    \/ \E id \in DOMAIN chunker.elements :
          \E x \in DataTypes : FillWithData(id, x)
    \/ \E id \in DOMAIN chunker.elements : ReadElement(id)

SpecElement == InitElement /\ [][NextElement]_vars

AllNone(e) ==
    /\ to_witness(e) = None
    /\ to_data(e) = None
    /\ to_hash(e) = None
    /\ to_hash_witness(e) = None

AllSome(e) ==
    /\ to_witness(e).some
    /\ to_data(e).some
    /\ to_hash(e).some
    /\ to_hash_witness(e).some

\* C40: an element starts with its four projections None; only a
\* fill_with_data that does not panic changes it, and after one the four
\* projections are Some, to_data the value filled, and what a read returns
\* is what the element holds; a fill_with_data whose variant is not the one
\* of the element's type panics and leaves the element as it was, empty
\* when it was empty.
C40_ElementEmptyUntilFilled ==
    /\ \A id \in DOMAIN chunker.elements : AllNone(chunker.elements[id])
    /\ [](\A id \in DOMAIN chunker.elements :
             LET e == chunker.elements[id]
                 last == chunker.last
             IN /\ AllNone(e) \/ AllSome(e)
                /\ (last.op = "fill_with_data" /\ ~last.panic) =>
                      /\ AllSome(e)
                      /\ to_data(e) = Some(last.x)
                /\ last.op = "fill_with_data" =>
                      (last.panic <=>
                          last.x.variant #
                              ElementTypes[e.element_type].data_type)
                /\ last.op = "read" =>
                      /\ last.result = Projections(e)
                      /\ last.result.to_data.some =>
                            last.result.to_data.value.variant =
                                ElementTypes[e.element_type].data_type)
    /\ [][\A id \in DOMAIN chunker.elements :
             /\ chunker'.elements[id] # chunker.elements[id] =>
                   /\ chunker'.last.op = "fill_with_data"
                   /\ ~chunker'.last.panic
             /\ (chunker'.last.op = "fill_with_data" /\ chunker'.last.panic
                 /\ chunker'.last # chunker.last) =>
                   /\ chunker'.elements = chunker.elements
                   /\ action_report' = "panic: fill wrong data"]_vars

\* A filled element was given data of another variant: the call panicked and
\* the element still holds what it was filled with.
C40_Witness ==
    /\ chunker.last.op = "fill_with_data"
    /\ chunker.last.panic
    /\ AllSome(chunker.elements[ElementId])
    /\ to_data(chunker.elements[ElementId]).value.value[1] = MaxFq

====
